---- MODULE Spec2Model ----
(***************************************************************************)
(* Matching and allocation core of the GST reconciliation server:          *)
(*   - reconcileData             (sales register against GSTR-1)           *)
(*   - reconcilePurchaseWith2A2B (purchase register against GSTR-2A/2B)    *)
(*   - computeTaxPayment         (ITC utilization waterfall, GSTR-3B       *)
(*                                table 6)                                 *)
(*                                                                         *)
(* Amounts are fixed-point integers counting thousandths of a rupee, so    *)
(* that the two-decimal rounding of the code (Math.round(x * 100) / 100)   *)
(* is a real operation: 1 rupee = 1000, 1 paisa = 10.                      *)
(* Every iteration of a matching loop and every step of the waterfall is   *)
(* one action; the body of each is an operator on the local state, so that *)
(* a whole run is also available as a function of its inputs.              *)
(***************************************************************************)
EXTENDS Integers, Sequences, FiniteSets, TLC

VARIABLES
  pc,              \* position of the running function
  salesData,       \* reconcileData: first argument
  gstr1Data,       \* reconcileData: second argument
  options,         \* reconcileData / reconcilePurchaseWith2A2B: options
  rec,             \* reconcileData: locals (maps, processedGSTR1, cursor, result)
  purchaseData,    \* reconcilePurchaseWith2A2B: first argument
  gstr2Data,       \* reconcilePurchaseWith2A2B: second argument
  pur,             \* reconcilePurchaseWith2A2B: locals (gstr2Map, gstr2Used, cursor, result)
  liability,       \* computeTaxPayment: table3_1.totalLiability
  itc,             \* computeTaxPayment: table4.netITC
  wf,              \* computeTaxPayment: locals (remain*, pay*, *Against*)
  table6           \* computeTaxPayment: returned object

vars == <<pc, salesData, gstr1Data, options, rec, purchaseData, gstr2Data, pur,
          liability, itc, wf, table6>>

salesVars    == <<salesData, gstr1Data, rec>>
purchaseVars == <<purchaseData, gstr2Data, pur>>
wfVars       == <<liability, itc, wf, table6>>

\* value of a variable that the running function does not own
Idle == <<>>

(***************************************************************************)
(* Numbers                                                                 *)
(***************************************************************************)
Min(a, b) == IF a <= b THEN a ELSE b
Max(a, b) == IF a >= b THEN a ELSE b
Abs(a)    == IF a < 0 THEN -a ELSE a

\* Math.round(x * 100) / 100 : nearest paisa, halves towards +infinity
Round2(x) == ((x + 5) \div 10) * 10

(***************************************************************************)
(* computeTaxPayment (gstr3b.js)                                           *)
(***************************************************************************)
Heads == {"igst", "cgst", "sgst", "cess"}

\* bound: liabilities and credits range over 0 .. MaxWfUnits rupees
MaxWfUnits == 2
WfAmounts == {k * 1000 : k \in 0..MaxWfUnits}

\* lines 274-282: the remaining credit and the liability still to pay
WfStart(liab, credit) ==
  [remainIGST |-> credit.igst, remainCGST |-> credit.cgst,
   remainSGST |-> credit.sgst, remainCESS |-> credit.cess,
   payIGST |-> liab.igst, payCGST |-> liab.cgst,
   paySGST |-> liab.sgst, payCESS |-> liab.cess,
   igstAgainstIgst |-> 0, igstAgainstCgst |-> 0, igstAgainstSgst |-> 0,
   cgstAgainstCgst |-> 0, cgstAgainstIgst |-> 0,
   sgstAgainstSgst |-> 0, sgstAgainstIgst |-> 0, cessAgainstCess |-> 0]

Step1_skipped(s) == s

\* Step 1: IGST ITC against IGST liability
Step1(s) ==
  LET u == Min(s.remainIGST, s.payIGST)
  IN [s EXCEPT !.igstAgainstIgst = u, !.remainIGST = @ - u, !.payIGST = @ - u]

Step2_skipped(s) == s

\* Step 2: remaining IGST ITC against CGST liability
Step2(s) ==
  LET u == Min(s.remainIGST, s.payCGST)
  IN [s EXCEPT !.igstAgainstCgst = u, !.remainIGST = @ - u, !.payCGST = @ - u]

Step3_keepCredit(s) ==
  LET u == Min(s.remainIGST, s.paySGST)
  IN [s EXCEPT !.igstAgainstSgst = u, !.paySGST = @ - u]

\* Step 3: remaining IGST ITC against SGST liability
Step3(s) ==
  LET u == Min(s.remainIGST, s.paySGST)
  IN [s EXCEPT !.igstAgainstSgst = u, !.remainIGST = @ - u, !.paySGST = @ - u]

Step4_skipped(s) == s

\* Step 4: CGST ITC against CGST liability
Step4(s) ==
  LET u == Min(s.remainCGST, s.payCGST)
  IN [s EXCEPT !.cgstAgainstCgst = u, !.remainCGST = @ - u, !.payCGST = @ - u]

Step5_toSgst(s) ==
  LET u == Min(s.remainCGST, s.paySGST)
  IN [s EXCEPT !.cgstAgainstIgst = u, !.remainCGST = @ - u, !.paySGST = @ - u]

\* Step 5: remaining CGST ITC against IGST liability
Step5(s) ==
  LET u == Min(s.remainCGST, s.payIGST)
  IN [s EXCEPT !.cgstAgainstIgst = u, !.remainCGST = @ - u, !.payIGST = @ - u]

Step6_overdraws(s) ==
  [s EXCEPT !.sgstAgainstSgst = s.paySGST, !.remainSGST = @ - s.paySGST,
            !.paySGST = 0]

\* Step 6: SGST ITC against SGST liability
Step6(s) ==
  LET u == Min(s.remainSGST, s.paySGST)
  IN [s EXCEPT !.sgstAgainstSgst = u, !.remainSGST = @ - u, !.paySGST = @ - u]

Step7_noLiability(s) ==
  LET u == Min(s.remainSGST, s.payIGST)
  IN [s EXCEPT !.sgstAgainstIgst = u, !.remainSGST = @ - u]

\* Step 7: remaining SGST ITC against IGST liability
Step7(s) ==
  LET u == Min(s.remainSGST, s.payIGST)
  IN [s EXCEPT !.sgstAgainstIgst = u, !.remainSGST = @ - u, !.payIGST = @ - u]

Step8_spill(s) ==
  LET u == Min(s.remainCESS, s.payCESS)
      v == Min(s.remainCESS - u, s.payIGST)
  IN [s EXCEPT !.cessAgainstCess = u, !.remainCESS = @ - u - v,
               !.payCESS = @ - u, !.payIGST = @ - v]

\* Step 8: CESS ITC against CESS liability
Step8(s) ==
  LET u == Min(s.remainCESS, s.payCESS)
  IN [s EXCEPT !.cessAgainstCess = u, !.remainCESS = @ - u, !.payCESS = @ - u]

\* lines 324-375: the returned object
WfReport(liab, credit, s) ==
  LET cashPayable == [igst |-> Round2(Max(0, s.payIGST)),
                      cgst |-> Round2(Max(0, s.payCGST)),
                      sgst |-> Round2(Max(0, s.paySGST)),
                      cess |-> Round2(Max(0, s.payCESS))]
      itcUtilized == [igst |-> credit.igst - s.remainIGST,
                      cgst |-> credit.cgst - s.remainCGST,
                      sgst |-> credit.sgst - s.remainSGST,
                      cess |-> credit.cess - s.remainCESS]
      itcBalance  == [igst |-> Round2(s.remainIGST),
                      cgst |-> Round2(s.remainCGST),
                      sgst |-> Round2(s.remainSGST),
                      cess |-> Round2(s.remainCESS)]
      Total(r)    == r.igst + r.cgst + r.sgst + r.cess
  IN [liability      |-> liab,
      itcAvailable   |-> credit,
      utilization    |-> [igstToIgst |-> s.igstAgainstIgst,
                          igstToCgst |-> s.igstAgainstCgst,
                          igstToSgst |-> s.igstAgainstSgst,
                          cgstToCgst |-> s.cgstAgainstCgst,
                          cgstToIgst |-> s.cgstAgainstIgst,
                          sgstToSgst |-> s.sgstAgainstSgst,
                          sgstToIgst |-> s.sgstAgainstIgst,
                          cessTocess |-> s.cessAgainstCess],
      itcUtilized    |-> itcUtilized @@ [total |-> Total(itcUtilized)],
      cashPayable    |-> cashPayable @@ [total |-> Total(cashPayable)],
      itcBalance     |-> itcBalance @@ [total |-> Total(itcBalance)],
      totalLiability |-> Total(liab),
      netPayable     |-> Total(cashPayable)]

\* the whole function, steps in the order of the code
computeTaxPayment(liab, credit) ==
  WfReport(liab, credit,
    Step8(Step7(Step6(Step5(Step4(Step3(Step2(Step1(WfStart(liab, credit))))))))))

WfInit ==
  /\ liability \in [Heads -> WfAmounts]
  /\ itc \in [Heads -> WfAmounts]
  /\ wf = WfStart(liability, itc)
  /\ table6 = Idle
  /\ pc = "step1"
  /\ salesData = Idle /\ gstr1Data = Idle /\ options = Idle /\ rec = Idle
  /\ purchaseData = Idle /\ gstr2Data = Idle /\ pur = Idle

WfAdvance(from, to, after) ==
  /\ pc = from
  /\ wf' = after
  /\ pc' = to
  /\ UNCHANGED <<liability, itc, table6, options, salesVars, purchaseVars>>

UseIgstAgainstIgst == WfAdvance("step1", "step2", Step1(wf))
UseIgstAgainstCgst == WfAdvance("step2", "step3", Step2(wf))
UseIgstAgainstSgst == WfAdvance("step3", "step4", Step3(wf))
UseCgstAgainstCgst == WfAdvance("step4", "step5", Step4(wf))
UseCgstAgainstIgst == WfAdvance("step5", "step6", Step5(wf))
UseSgstAgainstSgst == WfAdvance("step6", "step7", Step6(wf))
UseSgstAgainstIgst == WfAdvance("step7", "step8", Step7(wf))
UseCessAgainstCess == WfAdvance("step8", "report", Step8(wf))

ReturnTaxPayment ==
  /\ pc = "report"
  /\ table6' = WfReport(liability, itc, wf)
  /\ pc' = "returned"
  /\ UNCHANGED <<liability, itc, wf, options, salesVars, purchaseVars>>

WfNext ==
  \/ UseIgstAgainstIgst
  \/ UseIgstAgainstCgst
  \/ UseIgstAgainstSgst
  \/ UseCgstAgainstCgst
  \/ UseCgstAgainstIgst
  \/ UseSgstAgainstSgst
  \/ UseSgstAgainstIgst
  \/ UseCessAgainstCess
  \/ ReturnTaxPayment

SpecWaterfall == WfInit /\ [][WfNext]_vars

(***************************************************************************)
(* Properties of computeTaxPayment                                         *)
(***************************************************************************)
Returned == pc = "returned"

\* C4: for every head the liability equals the cash payable plus the credit
\* utilized against that head, and totalLiability = netPayable +
\* itcUtilized.total.
WaterfallLiabilityConservation ==
  Returned =>
    LET u == table6.utilization
        cash == table6.cashPayable
    IN /\ liability.igst = cash.igst + u.igstToIgst + u.cgstToIgst + u.sgstToIgst
       /\ liability.cgst = cash.cgst + u.igstToCgst + u.cgstToCgst
       /\ liability.sgst = cash.sgst + u.igstToSgst + u.sgstToSgst
       /\ liability.cess = cash.cess + u.cessTocess
       /\ table6.totalLiability = table6.netPayable + table6.itcUtilized.total

\* a run in which CGST credit spills into IGST liability and cash is still
\* payable for IGST and for SGST
WaterfallLiabilityWitness ==
  /\ Returned
  /\ table6.utilization.cgstToIgst > 0
  /\ table6.cashPayable.igst > 0
  /\ table6.cashPayable.sgst > 0

\* C5: for every head the available credit equals the balance carried
\* forward plus the credit utilized, and the credit utilized of a head is the
\* sum of the utilization entries drawn from that head.
WaterfallCreditConservation ==
  Returned =>
    LET u == table6.utilization
        used == table6.itcUtilized
    IN /\ \A h \in Heads : itc[h] = table6.itcBalance[h] + used[h]
       /\ used.igst = u.igstToIgst + u.igstToCgst + u.igstToSgst
       /\ used.cgst = u.cgstToCgst + u.cgstToIgst
       /\ used.sgst = u.sgstToSgst + u.sgstToIgst
       /\ used.cess = u.cessTocess

\* a run in which IGST credit is spread over the CGST and SGST liabilities
\* and CGST credit is carried forward
WaterfallCreditWitness ==
  /\ Returned
  /\ table6.utilization.igstToCgst > 0
  /\ table6.utilization.igstToSgst > 0
  /\ table6.itcBalance.cgst > 0

\* C6: CGST credit is never utilized against SGST liability nor SGST credit
\* against CGST liability: the SGST cash payable is the one of the run
\* without any CGST credit, the CGST cash payable is the one of the run without
\* any SGST credit, each of the two credits is spent on its own and on the
\* IGST liability only, and each of the two liabilities is covered by cash,
\* IGST credit and its own credit only.
WaterfallSymmetricHeadsSeparate ==
  Returned =>
    /\ table6.cashPayable.sgst =
         computeTaxPayment(liability, [itc EXCEPT !.cgst = 0]).cashPayable.sgst
    /\ table6.cashPayable.cgst =
         computeTaxPayment(liability, [itc EXCEPT !.sgst = 0]).cashPayable.cgst
    /\ table6.itcUtilized.cgst =
         table6.utilization.cgstToCgst + table6.utilization.cgstToIgst
    /\ table6.itcUtilized.sgst =
         table6.utilization.sgstToSgst + table6.utilization.sgstToIgst
    /\ liability.sgst - table6.cashPayable.sgst =
         table6.utilization.igstToSgst + table6.utilization.sgstToSgst
    /\ liability.cgst - table6.cashPayable.cgst =
         table6.utilization.igstToCgst + table6.utilization.cgstToCgst

\* CGST credit is left over while SGST cash is payable
WaterfallSymmetricHeadsWitness ==
  /\ Returned
  /\ table6.itcBalance.cgst > 0
  /\ table6.cashPayable.sgst > 0
  /\ table6.utilization.cgstToCgst > 0

\* C7: IGST credit reaches CGST or SGST liability only after the IGST
\* liability is fully offset by IGST credit, and reaches SGST liability only
\* after the whole CGST liability is offset by IGST credit.
WaterfallCrossHeadOrder ==
  Returned =>
    LET u == table6.utilization
    IN /\ (u.igstToCgst > 0 \/ u.igstToSgst > 0) => u.igstToIgst = liability.igst
       /\ u.igstToSgst > 0 => u.igstToCgst = liability.cgst

\* IGST credit pays the CGST liability and a part of the SGST liability
WaterfallCrossHeadOrderWitness ==
  /\ Returned
  /\ liability.cgst > 0
  /\ table6.utilization.igstToSgst > 0
  /\ table6.cashPayable.sgst > 0

\* C8: the cess figures are those of the run in which every other head is
\* zero, and the IGST, CGST and SGST figures are those of the run in which the
\* cess liability and the cess credit are zero.
CessOnly(r) == [h \in Heads |-> IF h = "cess" THEN r[h] ELSE 0]
NoCess(r)   == [r EXCEPT !.cess = 0]
WaterfallCessIsolated ==
  Returned =>
    LET alone == computeTaxPayment(CessOnly(liability), CessOnly(itc))
        without == computeTaxPayment(NoCess(liability), NoCess(itc))
    IN /\ table6.cashPayable.cess = alone.cashPayable.cess
       /\ table6.itcUtilized.cess = alone.itcUtilized.cess
       /\ table6.itcBalance.cess = alone.itcBalance.cess
       /\ \A h \in Heads \ {"cess"} :
            /\ table6.cashPayable[h] = without.cashPayable[h]
            /\ table6.itcUtilized[h] = without.itcUtilized[h]
            /\ table6.itcBalance[h] = without.itcBalance[h]
       /\ \A k \in DOMAIN table6.utilization :
            k # "cessTocess" => table6.utilization[k] = without.utilization[k]

\* cess credit is left over while IGST cash is payable
WaterfallCessWitness ==
  /\ Returned
  /\ table6.itcBalance.cess > 0
  /\ table6.utilization.cessTocess > 0
  /\ table6.cashPayable.igst > 0

(***************************************************************************)
(* Strings and raw field values                                            *)
(*                                                                         *)
(* A string is a sequence of one-character strings; <<>> is the empty or   *)
(* absent string.  A raw numeric field of a record is <<n>> for the number *)
(* n, <<>> when the field is absent and <<0, 0>> when it holds text that   *)
(* parseFloat cannot read.                                                 *)
(***************************************************************************)
LowerCase == <<"a", "b", "c", "d", "e", "f", "g", "h", "i", "j", "k", "l", "m",
               "n", "o", "p", "q", "r", "s", "t", "u", "v", "w", "x", "y", "z">>
UpperCase == <<"A", "B", "C", "D", "E", "F", "G", "H", "I", "J", "K", "L", "M",
               "N", "O", "P", "Q", "R", "S", "T", "U", "V", "W", "X", "Y", "Z">>
Digits == {"0", "1", "2", "3", "4", "5", "6", "7", "8", "9"}

\* String.prototype.toUpperCase
ToUpperCase(str) ==
  [k \in 1..Len(str) |->
     IF \E i \in 1..26 : LowerCase[i] = str[k]
     THEN UpperCase[CHOOSE i \in 1..26 : LowerCase[i] = str[k]]
     ELSE str[k]]

\* String.prototype.replace(/[...]/g, ''): the characters of drop removed
RemoveChars(str, drop) == SelectSeq(str, LAMBDA c : c \notin drop)

\* parseFloat(v) || 0
ParseFloatOr0(v) == IF Len(v) = 1 THEN v[1] ELSE 0

\* options.x || dflt : an absent or zero option takes the default
OptionOr(v, dflt) == IF Len(v) = 1 /\ v[1] # 0 THEN v[1] ELSE dflt

\* least element of a non-empty set of integers
Least(S) == CHOOSE x \in S : \A y \in S : x <= y

Unknown == <<"U", "n", "k", "n", "o", "w", "n">>

MoneyFields == <<"taxableAmount", "cgst", "sgst", "igst", "totalAmount">>

(***************************************************************************)
(* reconcilePurchaseWith2A2B (gstr2Reconciliation.js)                      *)
(***************************************************************************)
\* bounds: number of purchase records and of GSTR-2A/2B records
MaxPurchases == 2
MaxGstr2 == 2

\* a purchase-side record; total = taxable + cgst + sgst + igst
PInv(no, gstin, taxable, cgst, sgst, igst) ==
  [invoiceNo |-> no, supplierGSTIN |-> gstin, sellerGSTIN |-> <<>>,
   taxableAmount |-> <<taxable>>, cgst |-> <<cgst>>, sgst |-> <<sgst>>,
   igst |-> <<igst>>, totalAmount |-> <<taxable + cgst + sgst + igst>>,
   source |-> "2B"]

\* records a purchase register or a GSTR-2A/2B extract may hold
PurchasePool ==
  { PInv(<<"a", "-", "1">>, <<"G", "1">>, 100000, 0, 0, 18000),
    PInv(<<"B", "2">>, <<"g", "1">>, 100000, 0, 0, 19000),
    PInv(<<"B", "2">>, <<"G", "1">>, 150000, 13500, 13500, 0),
    PInv(<<"A", "1">>, <<"G", "2">>, 100000, 9000, 9000, 0),
    PInv(<<"A", "1">>, <<>>, 100000, 0, 0, 18000),
    [PInv(<<>>, <<>>, 100000, 0, 0, 18000) EXCEPT !.sellerGSTIN = <<"G", "1">>] }
Gstr2Pool ==
  { PInv(<<"A", "1">>, <<"G", "1">>, 100000, 0, 0, 18000),
    PInv(<<"B", "/", "2">>, <<"G", "1">>, 100000, 0, 0, 19000),
    PInv(<<"C", "3">>, <<"G", "1">>, 100000, 0, 0, 18000),
    PInv(<<"A", "1">>, <<"G", "2">>, 100000, 9000, 9000, 0),
    PInv(<<"A", "1">>, <<>>, 100000, 0, 0, 18000),
    [PInv(<<"C", "3">>, <<"G", "2">>, 200000, 0, 0, 36000) EXCEPT !.source = "2A"] }
PurchaseTolerances == {<<>>, <<500>>}

SeqsUpTo(S, n) == UNION {[1..k -> S] : k \in 0..n}

\* lines 154-157
normalizeInvNo(invNo) ==
  IF invNo = <<>> THEN <<>>
  ELSE ToUpperCase(RemoveChars(invNo, {" ", "-", "/", "\\", "."}))

\* lines 196-197: `${gstin}_${key}`
Gstr2CompositeKey(inv) ==
  ToUpperCase(inv.supplierGSTIN) \o <<"_">> \o normalizeInvNo(inv.invoiceNo)

\* lines 215, 356, 375: purchase.sellerGSTIN || purchase.supplierGSTIN || ''
PurchaseGSTIN(purchase) ==
  ToUpperCase(IF purchase.sellerGSTIN # <<>> THEN purchase.sellerGSTIN
              ELSE purchase.supplierGSTIN)

\* lines 214-216
PurchaseCompositeKey(purchase) ==
  PurchaseGSTIN(purchase) \o <<"_">> \o normalizeInvNo(purchase.invoiceNo)

\* lines 328-369: the list of discrepancies of a pair
comparePurchaseInvoice(purchase, gstr2, tolerance) ==
  LET Diff(name) == ParseFloatOr0(purchase[name]) - ParseFloatOr0(gstr2[name])
      Amount(k) ==
        IF Abs(Diff(MoneyFields[k])) > tolerance
        THEN << [field |-> MoneyFields[k], difference |-> Diff(MoneyFields[k]),
                 severity |-> IF Abs(Diff(MoneyFields[k])) > 100000
                              THEN "error" ELSE "warning"] >>
        ELSE <<>>
      pGSTIN == PurchaseGSTIN(purchase)
      gGSTIN == ToUpperCase(gstr2.supplierGSTIN)
      gstin ==
        IF pGSTIN # <<>> /\ gGSTIN # <<>> /\ pGSTIN # gGSTIN
        THEN << [field |-> "gstin", difference |-> 0, severity |-> "error"] >>
        ELSE <<>>
  IN Amount(1) \o Amount(2) \o Amount(3) \o Amount(4) \o Amount(5) \o gstin

findFuzzyMatch2A_anyRecord(purchase, data2, usedSet) ==
  LET purchaseGSTIN == PurchaseGSTIN(purchase)
      purchaseAmount == ParseFloatOr0(purchase.totalAmount)
      hits == {i \in 1..Len(data2) :
                 /\ purchaseGSTIN # <<>>
                 /\ purchaseGSTIN = ToUpperCase(data2[i].supplierGSTIN)
                 /\ Abs(purchaseAmount - ParseFloatOr0(data2[i].totalAmount)) <= 1000}
  IN IF hits = {} THEN 0 ELSE Least(hits)

\* lines 374-390: index of the first unused record of the same supplier whose
\* total is within one rupee, 0 when there is none
findFuzzyMatch2A(purchase, data2, usedSet) ==
  LET purchaseGSTIN == PurchaseGSTIN(purchase)
      purchaseAmount == ParseFloatOr0(purchase.totalAmount)
      hits == {i \in 1..Len(data2) :
                 /\ i \notin usedSet
                 /\ purchaseGSTIN # <<>>
                 /\ purchaseGSTIN = ToUpperCase(data2[i].supplierGSTIN)
                 /\ Abs(purchaseAmount - ParseFloatOr0(data2[i].totalAmount)) <= 1000}
  IN IF hits = {} THEN 0 ELSE Least(hits)

ZeroITC == [cgst |-> 0, sgst |-> 0, igst |-> 0, total |-> 0]

\* cgst, sgst and igst of a record added to an ITC accumulator
AddITC(acc, inv) ==
  [acc EXCEPT !.cgst = @ + ParseFloatOr0(inv.cgst),
              !.sgst = @ + ParseFloatOr0(inv.sgst),
              !.igst = @ + ParseFloatOr0(inv.igst)]

WithTotal(acc) == [acc EXCEPT !.total = acc.cgst + acc.sgst + acc.igst]

\* lines 162-187: the locals before the first loop
PurchaseStart(pData, data2) ==
  [gstr2Map  |-> <<>>,
   gstr2Used |-> {},
   cursor    |-> 1,
   result    |->
     [summary |-> [totalPurchaseInvoices |-> Len(pData),
                   totalGSTR2Invoices |-> Len(data2),
                   matched |-> 0, mismatched |-> 0,
                   missingInGSTR2 |-> 0, missingInPurchase |-> 0,
                   source |-> IF Len(data2) > 0 /\ data2[1].source = "2B"
                              THEN "2B" ELSE "2A"],
      matched |-> <<>>, mismatched |-> <<>>,
      missingInGSTR2 |-> <<>>, missingInPurchase |-> <<>>,
      itcSummary |-> [claimedITC |-> ZeroITC, availableITC |-> ZeroITC,
                      matchedITC |-> ZeroITC, excessClaimed |-> ZeroITC,
                      unclaimed |-> ZeroITC],
      supplierBreakdown |-> <<>>]]

RECURSIVE SumITC(_, _)
SumITC(data, n) == IF n = 0 THEN ZeroITC ELSE AddITC(SumITC(data, n - 1), data[n])

\* lines 193-210: gstr2Map as a function from composite key to the input
\* indices under that key, in input order, and the available ITC
BuildGstr2Map(data2, st) ==
  LET keys == {Gstr2CompositeKey(data2[i]) : i \in 1..Len(data2)}
      Bucket(key) ==
        SelectSeq([i \in 1..Len(data2) |-> i],
                  LAMBDA i : Gstr2CompositeKey(data2[i]) = key)
  IN [st EXCEPT !.gstr2Map = [key \in keys |-> Bucket(key)],
                !.result.itcSummary.availableITC =
                    WithTotal(SumITC(data2, Len(data2)))]

\* lines 225-228: the first candidate under the purchase's composite key
\* that is not used, 0 when there is none
ExactCandidate(pData, data2, st, i) ==
  LET key == PurchaseCompositeKey(pData[i])
      free == IF key \in DOMAIN st.gstr2Map
              THEN SelectSeq(st.gstr2Map[key], LAMBDA j : j \notin st.gstr2Used)
              ELSE <<>>
  IN IF free = <<>> THEN 0 ELSE free[1]

\* line 251: the fuzzy fallback runs only when no exact candidate was taken
FuzzyCandidate(pData, data2, st, i) ==
  IF ExactCandidate(pData, data2, st, i) # 0 THEN 0
  ELSE findFuzzyMatch2A(pData[i], data2, st.gstr2Used)

InvoiceNoWarning == [field |-> "invoiceNo", difference |-> 0, severity |-> "warning"]

\* lines 271-287
SupplierBreakdownAfter(breakdown, purchase, outcome) ==
  LET supplierKey == IF PurchaseGSTIN(purchase) # <<>>
                     THEN PurchaseGSTIN(purchase) ELSE Unknown
      old == IF supplierKey \in DOMAIN breakdown THEN breakdown[supplierKey]
             ELSE [gstin |-> PurchaseGSTIN(purchase),
                   matched |-> 0, mismatched |-> 0, missing |-> 0,
                   purchaseAmount |-> 0, gstr2Amount |-> 0]
      new == [old EXCEPT
                !.purchaseAmount = @ + ParseFloatOr0(purchase.totalAmount),
                ![outcome] = @ + 1]
  IN [k \in DOMAIN breakdown \cup {supplierKey} |->
        IF k = supplierKey THEN new ELSE breakdown[k]]

PurchaseIteration_fuzzyAsMatched(pData, data2, tolerance, st, i) ==
  LET purchase == pData[i]
      exact == ExactCandidate(pData, data2, st, i)
      fuzzy == FuzzyCandidate(pData, data2, st, i)
      claimed == [st EXCEPT !.result.itcSummary.claimedITC = AddITC(@, purchase),
                            !.cursor = i + 1]
      exactDisc == comparePurchaseInvoice(purchase, data2[exact], tolerance)
      paired ==
        IF exact # 0 /\ exactDisc = <<>>
        THEN [claimed EXCEPT
                !.result.matched = Append(@, [purchase |-> i, gstr2 |-> exact,
                                              discrepancies |-> <<>>]),
                !.result.summary.matched = @ + 1,
                !.result.itcSummary.matchedITC = AddITC(@, purchase),
                !.gstr2Used = @ \cup {exact}]
        ELSE IF exact # 0
        THEN [claimed EXCEPT
                !.result.mismatched = Append(@, [purchase |-> i, gstr2 |-> exact,
                                                 discrepancies |-> exactDisc]),
                !.result.summary.mismatched = @ + 1,
                !.gstr2Used = @ \cup {exact}]
        ELSE IF fuzzy # 0
        THEN [claimed EXCEPT
                !.result.matched =
                   Append(@, [purchase |-> i, gstr2 |-> fuzzy,
                              discrepancies |->
                                Append(comparePurchaseInvoice(purchase, data2[fuzzy], tolerance),
                                       InvoiceNoWarning)]),
                !.result.summary.matched = @ + 1,
                !.gstr2Used = @ \cup {fuzzy}]
        ELSE [claimed EXCEPT
                !.result.missingInGSTR2 = Append(@, i),
                !.result.summary.missingInGSTR2 = @ + 1]
      outcome == IF exact = 0 /\ fuzzy = 0 THEN "missing"
                 ELSE IF exact # 0 /\ exactDisc = <<>> THEN "matched"
                 ELSE "mismatched"
  IN [paired EXCEPT !.result.supplierBreakdown =
                       SupplierBreakdownAfter(@, purchase, outcome)]

\* lines 213-288: one iteration of the purchase loop, for purchaseData[i]
PurchaseIteration(pData, data2, tolerance, st, i) ==
  LET purchase == pData[i]
      exact == ExactCandidate(pData, data2, st, i)
      fuzzy == FuzzyCandidate(pData, data2, st, i)
      claimed == [st EXCEPT !.result.itcSummary.claimedITC = AddITC(@, purchase),
                            !.cursor = i + 1]
      exactDisc == comparePurchaseInvoice(purchase, data2[exact], tolerance)
      paired ==
        IF exact # 0 /\ exactDisc = <<>>
        THEN [claimed EXCEPT
                !.result.matched = Append(@, [purchase |-> i, gstr2 |-> exact,
                                              discrepancies |-> <<>>]),
                !.result.summary.matched = @ + 1,
                !.result.itcSummary.matchedITC = AddITC(@, purchase),
                !.gstr2Used = @ \cup {exact}]
        ELSE IF exact # 0
        THEN [claimed EXCEPT
                !.result.mismatched = Append(@, [purchase |-> i, gstr2 |-> exact,
                                                 discrepancies |-> exactDisc]),
                !.result.summary.mismatched = @ + 1,
                !.gstr2Used = @ \cup {exact}]
        ELSE IF fuzzy # 0
        THEN [claimed EXCEPT
                !.result.mismatched =
                   Append(@, [purchase |-> i, gstr2 |-> fuzzy,
                              discrepancies |->
                                Append(comparePurchaseInvoice(purchase, data2[fuzzy], tolerance),
                                       InvoiceNoWarning)]),
                !.result.summary.mismatched = @ + 1,
                !.gstr2Used = @ \cup {fuzzy}]
        ELSE [claimed EXCEPT
                !.result.missingInGSTR2 = Append(@, i),
                !.result.summary.missingInGSTR2 = @ + 1]
      outcome == IF exact = 0 /\ fuzzy = 0 THEN "missing"
                 ELSE IF exact # 0 /\ exactDisc = <<>> THEN "matched"
                 ELSE "mismatched"
  IN [paired EXCEPT !.result.supplierBreakdown =
                       SupplierBreakdownAfter(@, purchase, outcome)]

\* max(0, a - b) per head, then the total
ExcessITC_unfloored(a, b) ==
  WithTotal([cgst |-> a.cgst - b.cgst, sgst |-> a.sgst - b.sgst,
             igst |-> a.igst - b.igst, total |-> 0])

ExcessITC(a, b) ==
  WithTotal([cgst |-> Max(0, a.cgst - b.cgst), sgst |-> Max(0, a.sgst - b.sgst),
             igst |-> Max(0, a.igst - b.igst), total |-> 0])

\* lines 290-322: totals, the unused GSTR-2A/2B records, excess and unclaimed
PurchaseFinish(data2, st) ==
  LET unused == SelectSeq([i \in 1..Len(data2) |-> i],
                          LAMBDA i : i \notin st.gstr2Used)
      its == st.result.itcSummary
  IN [st EXCEPT
        !.result.itcSummary.claimedITC = WithTotal(@),
        !.result.itcSummary.matchedITC = WithTotal(@),
        !.result.missingInPurchase = unused,
        !.result.summary.missingInPurchase = Len(unused),
        !.result.itcSummary.excessClaimed = ExcessITC(its.claimedITC, its.availableITC),
        !.result.itcSummary.unclaimed = ExcessITC(its.availableITC, its.claimedITC)]

RECURSIVE PurchaseLoop(_, _, _, _, _)
PurchaseLoop(pData, data2, tolerance, st, i) ==
  IF i > Len(pData) THEN st
  ELSE PurchaseLoop(pData, data2, tolerance,
                    PurchaseIteration(pData, data2, tolerance, st, i), i + 1)

\* the whole function: its result object
reconcilePurchaseWith2A2B(pData, data2, opts) ==
  PurchaseFinish(data2,
    PurchaseLoop(pData, data2, OptionOr(opts.tolerance, 1000),
                 BuildGstr2Map(data2, PurchaseStart(pData, data2)), 1)).result

PurchaseInit ==
  /\ purchaseData \in SeqsUpTo(PurchasePool, MaxPurchases)
  /\ gstr2Data \in SeqsUpTo(Gstr2Pool, MaxGstr2)
  /\ options \in [tolerance : PurchaseTolerances]
  /\ pur = PurchaseStart(purchaseData, gstr2Data)
  /\ pc = "p_index"
  /\ salesData = Idle /\ gstr1Data = Idle /\ rec = Idle
  /\ liability = Idle /\ itc = Idle /\ wf = Idle /\ table6 = Idle

\* the first loop
IndexGstr2 ==
  /\ pc = "p_index"
  /\ pur' = BuildGstr2Map(gstr2Data, pur)
  /\ pc' = "p_match"
  /\ UNCHANGED <<purchaseData, gstr2Data, options, salesVars, wfVars>>

\* one iteration whose outcome is decided by the branch guard
PurchaseAdvance(guard) ==
  /\ pc = "p_match"
  /\ pur.cursor <= Len(purchaseData)
  /\ guard
  /\ pur' = PurchaseIteration(purchaseData, gstr2Data,
                              OptionOr(options.tolerance, 1000), pur, pur.cursor)
  /\ UNCHANGED <<pc, purchaseData, gstr2Data, options, salesVars, wfVars>>

MatchPurchaseExact ==
  PurchaseAdvance(ExactCandidate(purchaseData, gstr2Data, pur, pur.cursor) # 0)

MatchPurchaseFuzzy ==
  PurchaseAdvance(FuzzyCandidate(purchaseData, gstr2Data, pur, pur.cursor) # 0)

PurchaseNotFound ==
  PurchaseAdvance(/\ ExactCandidate(purchaseData, gstr2Data, pur, pur.cursor) = 0
                  /\ FuzzyCandidate(purchaseData, gstr2Data, pur, pur.cursor) = 0)

ReturnPurchaseResult ==
  /\ pc = "p_match"
  /\ pur.cursor > Len(purchaseData)
  /\ pur' = PurchaseFinish(gstr2Data, pur)
  /\ pc' = "p_returned"
  /\ UNCHANGED <<purchaseData, gstr2Data, options, salesVars, wfVars>>

PurchaseNext ==
  \/ IndexGstr2
  \/ MatchPurchaseExact
  \/ MatchPurchaseFuzzy
  \/ PurchaseNotFound
  \/ ReturnPurchaseResult

SpecPurchase == PurchaseInit /\ [][PurchaseNext]_vars

(***************************************************************************)
(* Properties of reconcilePurchaseWith2A2B                                 *)
(***************************************************************************)
PurchaseReturned == pc = "p_returned"

PurchasePairs == pur.result.matched \o pur.result.mismatched

\* number of positions of a sequence that satisfy a test
Count(seq, Test(_)) == Cardinality({k \in 1..Len(seq) : Test(seq[k])})

\* C3: every purchase record is in exactly one of matched, mismatched and
\* missingInGSTR2, every GSTR-2A/2B record (by input index) is the gstr2
\* member of exactly one pair or listed exactly once in missingInPurchase, and
\* the sizes add up.
PurchasePartition ==
  PurchaseReturned =>
    LET r == pur.result
    IN /\ \A i \in 1..Len(purchaseData) :
            Count(PurchasePairs, LAMBDA e : e.purchase = i)
              + Count(r.missingInGSTR2, LAMBDA m : m = i) = 1
       /\ \A j \in 1..Len(gstr2Data) :
            Count(PurchasePairs, LAMBDA e : e.gstr2 = j)
              + Count(r.missingInPurchase, LAMBDA m : m = j) = 1
       /\ Len(purchaseData) + Len(gstr2Data) =
            2 * Len(r.matched) + 2 * Len(r.mismatched)
              + Len(r.missingInGSTR2) + Len(r.missingInPurchase)
       /\ Len(purchaseData) + Len(gstr2Data) =
            2 * r.summary.matched + 2 * r.summary.mismatched
              + r.summary.missingInGSTR2 + r.summary.missingInPurchase

\* a fuzzy pair took the only record under the composite key of a later
\* purchase, which is then missing
PurchasePartitionWitness ==
  /\ PurchaseReturned
  /\ \E e \in {PurchasePairs[k] : k \in 1..Len(PurchasePairs)} :
       /\ PurchaseCompositeKey(purchaseData[e.purchase])
            # Gstr2CompositeKey(gstr2Data[e.gstr2])
       /\ \E k \in 1..Len(pur.result.missingInGSTR2) :
            PurchaseCompositeKey(purchaseData[pur.result.missingInGSTR2[k]])
              = Gstr2CompositeKey(gstr2Data[e.gstr2])

(***************************************************************************)
(* reconcileData (fileParser.js, reconciliation engine)                    *)
(***************************************************************************)
\* bounds: number of sales register records and of GSTR-1 records
MaxSales == 2
MaxGstr1 == 2

\* String.prototype.trim
RECURSIVE Trim(_)
Trim(str) ==
  IF str = <<>> THEN str
  ELSE IF str[1] = " " THEN Trim(Tail(str))
  ELSE IF str[Len(str)] = " " THEN Trim(SubSeq(str, 1, Len(str) - 1))
  ELSE str

\* String.prototype.replace(/^0+/, '')
RECURSIVE StripLeadingZeros(_)
StripLeadingZeros(str) ==
  IF str # <<>> /\ str[1] = "0" THEN StripLeadingZeros(Tail(str)) ELSE str

\* lines 1054-1061
normalizeInvoiceNo(invoiceNo) ==
  IF invoiceNo = <<>> THEN <<>>
  ELSE StripLeadingZeros(RemoveChars(ToUpperCase(Trim(invoiceNo)), {" "}))

\* String.prototype.replace(/[^0-9]/g, '')
DigitsOf(str) == SelectSeq(str, LAMBDA c : c \in Digits)

\* String.prototype.split on the date separators - / .
RECURSIVE SplitDate(_)
SplitDate(str) ==
  LET seps == {k \in 1..Len(str) : str[k] \in {"-", "/", "."}}
  IN IF seps = {} THEN <<str>>
     ELSE <<SubSeq(str, 1, Least(seps) - 1)>>
            \o SplitDate(SubSeq(str, Least(seps) + 1, Len(str)))

AllDigits(str) == \A k \in 1..Len(str) : str[k] \in Digits

\* /^(\d{1,2})[-\/.](\d{1,2})[-\/.](\d{4})$/
IsDMY(parts) ==
  /\ Len(parts) = 3
  /\ \A k \in 1..3 : AllDigits(parts[k])
  /\ Len(parts[1]) \in {1, 2} /\ Len(parts[2]) \in {1, 2} /\ Len(parts[3]) = 4

\* /^(\d{4})[-\/.](\d{1,2})[-\/.](\d{1,2})$/
IsYMD(parts) ==
  /\ Len(parts) = 3
  /\ \A k \in 1..3 : AllDigits(parts[k])
  /\ Len(parts[1]) = 4 /\ Len(parts[2]) \in {1, 2} /\ Len(parts[3]) \in {1, 2}

\* String.prototype.padStart(2, '0')
PadStart2(str) == IF Len(str) < 2 THEN <<"0">> \o str ELSE str

\* lines 1184-1202
normalizeDate(dateStr) ==
  IF dateStr = <<>> THEN <<>>
  ELSE LET str == Trim(dateStr)
           parts == SplitDate(str)
       IN IF IsYMD(parts)
          THEN parts[1] \o <<"-">> \o PadStart2(parts[2]) \o <<"-">> \o PadStart2(parts[3])
          ELSE IF IsDMY(parts)
          THEN parts[3] \o <<"-">> \o PadStart2(parts[2]) \o <<"-">> \o PadStart2(parts[1])
          ELSE str

\* lines 1207-1218: YYYY-MM, <<>> for null
extractMonth(dateStr) ==
  IF dateStr = <<>> THEN <<>>
  ELSE LET parts == SplitDate(Trim(dateStr))
       IN IF IsDMY(parts) THEN parts[3] \o <<"-">> \o PadStart2(parts[2])
          ELSE IF IsYMD(parts) THEN parts[1] \o <<"-">> \o PadStart2(parts[2])
          ELSE <<>>

\* a sales-side record; total = taxable + cgst + sgst + igst + extra
SInv(no, gstin, name, date, taxable, cgst, sgst, igst, extra) ==
  [invoiceNo |-> no, customerGSTIN |-> gstin, customerName |-> name, date |-> date,
   taxableAmount |-> <<taxable>>, cgst |-> <<cgst>>, sgst |-> <<sgst>>,
   igst |-> <<igst>>, totalAmount |-> <<taxable + cgst + sgst + igst + extra>>]

Jan5 == <<"5", "-", "1", "-", "2", "0", "2", "4">>
Jan5Iso == <<"2", "0", "2", "4", "/", "0", "1", "/", "0", "5">>
Feb6 == <<"0", "6", ".", "0", "2", ".", "2", "0", "2", "4">>
Feb6Iso == <<"2", "0", "2", "4", "-", "2", "-", "6">>

\* records a sales register may hold
SalesPool ==
  { SInv(<<"a", "1">>, <<"g", "1">>, <<"X">>, Jan5, 100000, 9000, 9000, 0, 0),
    SInv(<<"B", "1">>, <<"G", "1">>, <<"X">>, Feb6, 100000, 9000, 9000, 0, 0),
    SInv(<<"B", "2">>, <<"G", "1">>, <<"X">>, Jan5, 100000, 0, 0, 18000, 800),
    SInv(<<>>, <<"G", "1">>, <<"X">>, Jan5, 100000, 0, 0, 18000, 0),
    SInv(<<" ", "0", "A", "1">>, <<>>, <<"Y">>, <<"J", "a", "n">>, 100000, 9000, 9000, 0, 800) }

\* records a GSTR-1 extract may hold
Gstr1Pool ==
  { SInv(<<"A", "1">>, <<"G", "1">>, <<>>, Jan5Iso, 100000, 9000, 9000, 0, 0),
    SInv(<<"B", "1">>, <<"G", "1">>, <<>>, Feb6Iso, 100000, 9000, 9000, 0, 0),
    SInv(<<"C", "3">>, <<"G", "1">>, <<>>, Jan5Iso, 100000, 0, 0, 18000, 0),
    SInv(<<"A", "1">>, <<"G", "2">>, <<>>, Feb6, 100000, 9000, 9000, 0, 0),
    SInv(<<>>, <<"G", "1">>, <<>>, Jan5Iso, 100000, 0, 0, 18000, 0) }

\* values of options.toleranceAmount
Tolerances == {0, 500, 2000}

\* lines 1034-1048: the map as the sequence of its entries in insertion order,
\* each with the input indices of the records under its key
buildInvoiceMap(invoices) ==
  LET kept == SelectSeq([i \in 1..Len(invoices) |-> i],
                        LAMBDA i : invoices[i].invoiceNo # <<>>)
      KeyOf(i) == normalizeInvoiceNo(invoices[i].invoiceNo)
      firsts == SelectSeq(kept, LAMBDA i : \A j \in 1..(i - 1) :
                                  invoices[j].invoiceNo = <<>> \/ KeyOf(j) # KeyOf(i))
  IN [k \in 1..Len(firsts) |->
        [key |-> KeyOf(firsts[k]),
         invoices |-> SelectSeq(kept, LAMBDA i : KeyOf(i) = KeyOf(firsts[k]))]]

\* Map.prototype.get: the bucket under a key, <<>> for undefined
MapGet(map, key) ==
  LET at == {k \in 1..Len(map) : map[k].key = key}
  IN IF at = {} THEN <<>> ELSE map[CHOOSE k \in at : TRUE].invoices

\* lines 1080-1093: confidence in tenths (9 for 0.9, 7 for 0.7, 0 for none)
FuzzyConfidence(salesInv, gstr1Inv, key) ==
  LET numericSales == DigitsOf(normalizeInvoiceNo(salesInv.invoiceNo))
      numericGSTR1 == DigitsOf(key)
      sameGSTIN == /\ salesInv.customerGSTIN # <<>>
                   /\ gstr1Inv.customerGSTIN # <<>>
                   /\ ToUpperCase(salesInv.customerGSTIN)
                        = ToUpperCase(gstr1Inv.customerGSTIN)
      \* (x.totalAmount || 0) - (y.totalAmount || 0): text gives NaN
      readable == Len(salesInv.totalAmount) <= 1 /\ Len(gstr1Inv.totalAmount) <= 1
      closeAmount == /\ readable
                     /\ Abs(ParseFloatOr0(salesInv.totalAmount)
                              - ParseFloatOr0(gstr1Inv.totalAmount)) < 1000
  IN IF numericSales # <<>> /\ numericSales = numericGSTR1 /\ sameGSTIN THEN 9
     ELSE IF sameGSTIN /\ closeAmount THEN 7
     ELSE 0

\* lines 1066-1102: [invoice, confidence] of the best candidate, the earliest
\* among equals; invoice 0 when there is none
findFuzzyMatch(salesInv, gData, gstr1Map, processedSet) ==
  LET open == {k \in 1..Len(gstr1Map) : gstr1Map[k].key \notin processedSet}
      Conf(k) == FuzzyConfidence(salesInv, gData[gstr1Map[k].invoices[1]], gstr1Map[k].key)
      good == {k \in open : Conf(k) >= 7}
      best == {k \in good : \A m \in good : Conf(m) <= Conf(k)}
  IN IF good = {} THEN [invoice |-> 0, confidence |-> 0]
     ELSE [invoice |-> gstr1Map[Least(best)].invoices[1],
           confidence |-> Conf(Least(best))]

compareInvoices_firstOnly(sData, gData, i, j, tolerance) ==
  LET salesInv == sData[i]
      gstr1Inv == gData[j]
      Diff(name) == ParseFloatOr0(salesInv[name]) - ParseFloatOr0(gstr1Inv[name])
      over == {k \in 1..Len(MoneyFields) : Abs(Diff(MoneyFields[k])) > tolerance}
      discrepancies ==
        IF over = {} THEN <<>>
        ELSE << [field |-> MoneyFields[Least(over)],
                 difference |-> Round2(Diff(MoneyFields[Least(over)])),
                 severity |-> "high"] >>
  IN [invoiceNo |-> salesInv.invoiceNo,
      salesInvoice |-> i,
      gstr1Invoice |-> j,
      discrepancies |-> discrepancies,
      totalDifference |-> Round2(Diff("totalAmount")),
      status |-> IF discrepancies = <<>> THEN "MATCHED" ELSE "MISMATCHED",
      matchType |-> "exact",
      matchConfidence |-> 0]

\* lines 1107-1179: the comparison object of a pair; the two records are
\* referred to by their input indices i and j
compareInvoices(sData, gData, i, j, tolerance) ==
  LET salesInv == sData[i]
      gstr1Inv == gData[j]
      Diff(name) == ParseFloatOr0(salesInv[name]) - ParseFloatOr0(gstr1Inv[name])
      Amount(k) ==
        IF Abs(Diff(MoneyFields[k])) > tolerance
        THEN << [field |-> MoneyFields[k],
                 difference |-> Round2(Diff(MoneyFields[k])),
                 severity |-> IF Abs(Diff(MoneyFields[k])) > 100000 THEN "high"
                              ELSE IF Abs(Diff(MoneyFields[k])) > 10000 THEN "medium"
                              ELSE "low"] >>
        ELSE <<>>
      salesGSTIN == Trim(ToUpperCase(salesInv.customerGSTIN))
      gstr1GSTIN == Trim(ToUpperCase(gstr1Inv.customerGSTIN))
      gstin ==
        IF salesGSTIN # <<>> /\ gstr1GSTIN # <<>> /\ salesGSTIN # gstr1GSTIN
        THEN << [field |-> "customerGSTIN", difference |-> 0, severity |-> "high"] >>
        ELSE <<>>
      salesDate == normalizeDate(salesInv.date)
      gstr1Date == normalizeDate(gstr1Inv.date)
      date ==
        IF salesDate # <<>> /\ gstr1Date # <<>> /\ salesDate # gstr1Date
        THEN << [field |-> "date", difference |-> 0, severity |-> "medium"] >>
        ELSE <<>>
      discrepancies ==
        Amount(1) \o Amount(2) \o Amount(3) \o Amount(4) \o Amount(5) \o gstin \o date
  IN [invoiceNo |-> salesInv.invoiceNo,
      salesInvoice |-> i,
      gstr1Invoice |-> j,
      discrepancies |-> discrepancies,
      totalDifference |-> Round2(Diff("totalAmount")),
      status |-> IF discrepancies = <<>> THEN "MATCHED" ELSE "MISMATCHED",
      matchType |-> "exact",
      matchConfidence |-> 0]

\* lines 859-884: the locals before the matching loop
SalesStart(sData, gData) ==
  [salesMap |-> buildInvoiceMap(sData),
   gstr1Map |-> buildInvoiceMap(gData),
   processedGSTR1 |-> {},
   cursor |-> 1,
   result |->
     [summary |-> [totalSalesInvoices |-> Len(sData),
                   totalGSTR1Invoices |-> Len(gData),
                   matched |-> 0, mismatched |-> 0,
                   missingSalesInGSTR1 |-> 0, missingGSTR1InSales |-> 0,
                   totalDiscrepancyAmount |-> 0],
      matched |-> <<>>, mismatched |-> <<>>,
      missingSalesInGSTR1 |-> <<>>, missingGSTR1InSales |-> <<>>,
      duplicates |-> <<>>,
      monthlyBreakdown |-> <<>>,
      customerBreakdown |-> <<>>]]

\* sets or updates one entry of an object used as a dictionary
Put(dict, key, value) ==
  [k \in DOMAIN dict \cup {key} |-> IF k = key THEN value ELSE dict[k]]

FileComparison_overwritesAmount(res, comparison) ==
  IF comparison.discrepancies = <<>>
  THEN [res EXCEPT !.matched = Append(@, comparison),
                   !.summary.matched = @ + 1]
  ELSE [res EXCEPT !.mismatched = Append(@, comparison),
                   !.summary.mismatched = @ + 1,
                   !.summary.totalDiscrepancyAmount = Abs(comparison.totalDifference)]

\* lines 910-917 and 945-952: the comparison filed under matched or mismatched
FileComparison(res, comparison) ==
  IF comparison.discrepancies = <<>>
  THEN [res EXCEPT !.matched = Append(@, comparison),
                   !.summary.matched = @ + 1]
  ELSE [res EXCEPT !.mismatched = Append(@, comparison),
                   !.summary.mismatched = @ + 1,
                   !.summary.totalDiscrepancyAmount =
                       @ + Abs(comparison.totalDifference)]

\* lines 965-966 and 997, 1008
CustKey(inv) ==
  IF inv.customerGSTIN # <<>> THEN inv.customerGSTIN
  ELSE IF inv.customerName # <<>> THEN inv.customerName
  ELSE Unknown

CountSalesInvoice_undatedAsMonth(res, salesInv) ==
  LET month == IF extractMonth(salesInv.date) = <<>> THEN Unknown
               ELSE extractMonth(salesInv.date)
      oldMonth == IF month \in DOMAIN res.monthlyBreakdown
                  THEN res.monthlyBreakdown[month]
                  ELSE [matched |-> 0, mismatched |-> 0, missing |-> 0, total |-> 0]
      custKey == CustKey(salesInv)
      oldCust == IF custKey \in DOMAIN res.customerBreakdown
                 THEN res.customerBreakdown[custKey]
                 ELSE [name |-> IF salesInv.customerName # <<>>
                                THEN salesInv.customerName ELSE custKey,
                       gstin |-> salesInv.customerGSTIN,
                       total |-> 0, matched |-> 0, mismatched |-> 0,
                       discrepancyAmount |-> 0]
  IN [res EXCEPT
        !.monthlyBreakdown = Put(@, month, [oldMonth EXCEPT !.total = @ + 1]),
        !.customerBreakdown = Put(@, custKey, [oldCust EXCEPT !.total = @ + 1])]

\* lines 955-973: the totals of the month and of the customer
CountSalesInvoice(res, salesInv) ==
  LET month == extractMonth(salesInv.date)
      oldMonth == IF month \in DOMAIN res.monthlyBreakdown
                  THEN res.monthlyBreakdown[month]
                  ELSE [matched |-> 0, mismatched |-> 0, missing |-> 0, total |-> 0]
      custKey == CustKey(salesInv)
      oldCust == IF custKey \in DOMAIN res.customerBreakdown
                 THEN res.customerBreakdown[custKey]
                 ELSE [name |-> IF salesInv.customerName # <<>>
                                THEN salesInv.customerName ELSE custKey,
                       gstin |-> salesInv.customerGSTIN,
                       total |-> 0, matched |-> 0, mismatched |-> 0,
                       discrepancyAmount |-> 0]
  IN [res EXCEPT
        !.monthlyBreakdown =
           IF month = <<>> THEN @
           ELSE Put(@, month, [oldMonth EXCEPT !.total = @ + 1]),
        !.customerBreakdown = Put(@, custKey, [oldCust EXCEPT !.total = @ + 1])]

\* lines 889-896 and 933-940
WithDuplicate(res, type, data, bucket) ==
  IF Len(bucket) > 1
  THEN [res EXCEPT !.duplicates =
          Append(@, [type |-> type, invoiceNo |-> data[bucket[1]].invoiceNo,
                     count |-> Len(bucket), invoices |-> bucket])]
  ELSE res

\* line 901: the matching loop takes the exact branch
HasExact(st, k) == MapGet(st.gstr1Map, st.salesMap[k].key) # <<>>

\* line 903
FuzzyOf(sData, gData, st, k) ==
  findFuzzyMatch(sData[st.salesMap[k].invoices[1]], gData,
                 st.gstr1Map, st.processedGSTR1)

\* lines 887-974: one iteration of the matching loop, for salesMap entry k
SalesIteration(sData, gData, tolerance, st, k) ==
  LET key == st.salesMap[k].key
      salesInvoices == st.salesMap[k].invoices
      i == salesInvoices[1]
      gstr1Invoices == MapGet(st.gstr1Map, key)
      res0 == WithDuplicate(st.result, "sales_duplicate", sData, salesInvoices)
      fuzzyMatch == FuzzyOf(sData, gData, st, k)
      after ==
        IF gstr1Invoices = <<>>
        THEN IF fuzzyMatch.invoice # 0
             THEN [st EXCEPT
                     !.result = FileComparison(res0,
                        [compareInvoices(sData, gData, i, fuzzyMatch.invoice, tolerance)
                           EXCEPT !.matchType = "fuzzy",
                                  !.matchConfidence = fuzzyMatch.confidence]),
                     !.processedGSTR1 =
                        @ \cup {normalizeInvoiceNo(gData[fuzzyMatch.invoice].invoiceNo)}]
             ELSE [st EXCEPT
                     !.result = [res0 EXCEPT
                        !.missingSalesInGSTR1 = Append(@, i),
                        !.summary.missingSalesInGSTR1 = @ + 1]]
        ELSE [st EXCEPT
                !.processedGSTR1 = @ \cup {key},
                !.result = FileComparison(
                   WithDuplicate(res0, "gstr1_duplicate", gData, gstr1Invoices),
                   compareInvoices(sData, gData, i, gstr1Invoices[1], tolerance))]
  IN [after EXCEPT !.result = CountSalesInvoice(@, sData[i]),
                   !.cursor = k + 1]

\* flattens a sequence of sequences
RECURSIVE Flatten(_)
Flatten(seqs) == IF seqs = <<>> THEN <<>> ELSE Head(seqs) \o Flatten(Tail(seqs))

\* lines 976-989: the records of every GSTR-1 key that was not processed
SalesSweep(st) ==
  LET left == SelectSeq(st.gstr1Map, LAMBDA e : e.key \notin st.processedGSTR1)
      missing == Flatten([k \in 1..Len(left) |-> left[k].invoices])
  IN [st EXCEPT !.result.missingGSTR1InSales = missing,
                !.result.summary.missingGSTR1InSales = Len(missing)]

\* lines 992-1020: one list folded into the monthly and customer breakdowns
RECURSIVE FoldOutcomes(_, _, _, _)
FoldOutcomes(res, sData, kind, items) ==
  IF items = <<>> THEN res
  ELSE LET item == Head(items)
           salesInv == IF kind = "missing" THEN sData[item]
                       ELSE sData[item.salesInvoice]
           month == extractMonth(salesInv.date)
           custKey == CustKey(salesInv)
           withMonth ==
             IF month # <<>> /\ month \in DOMAIN res.monthlyBreakdown
             THEN [res EXCEPT !.monthlyBreakdown[month][kind] = @ + 1]
             ELSE res
           withCust ==
             IF kind # "missing" /\ custKey \in DOMAIN withMonth.customerBreakdown
             THEN [withMonth EXCEPT
                     !.customerBreakdown[custKey][kind] = @ + 1,
                     !.customerBreakdown[custKey].discrepancyAmount =
                        IF kind = "mismatched" THEN @ + Abs(item.totalDifference)
                        ELSE @]
             ELSE withMonth
       IN FoldOutcomes(withCust, sData, kind, Tail(items))

\* lines 991-1028 (validationIssues are not part of the modelled result)
SalesFinish(sData, st) ==
  LET a == FoldOutcomes(st.result, sData, "matched", st.result.matched)
      b == FoldOutcomes(a, sData, "mismatched", a.mismatched)
      c == FoldOutcomes(b, sData, "missing", b.missingSalesInGSTR1)
  IN [st EXCEPT !.result =
        [c EXCEPT !.summary.totalDiscrepancyAmount = Round2(@)]]

RECURSIVE SalesLoop(_, _, _, _, _)
SalesLoop(sData, gData, tolerance, st, k) ==
  IF k > Len(st.salesMap) THEN st
  ELSE SalesLoop(sData, gData, tolerance,
                 SalesIteration(sData, gData, tolerance, st, k), k + 1)

\* the whole function: its result object
reconcileData(sData, gData, opts) ==
  SalesFinish(sData,
    SalesSweep(
      SalesLoop(sData, gData, OptionOr(opts.toleranceAmount, 1000),
                SalesStart(sData, gData), 1))).result

SalesInit ==
  /\ salesData \in SeqsUpTo(SalesPool, MaxSales)
  /\ gstr1Data \in SeqsUpTo(Gstr1Pool, MaxGstr1)
  /\ options \in [toleranceAmount : {<<t>> : t \in Tolerances}]
  /\ rec = SalesStart(salesData, gstr1Data)
  /\ pc = "s_match"
  /\ purchaseData = Idle /\ gstr2Data = Idle /\ pur = Idle
  /\ liability = Idle /\ itc = Idle /\ wf = Idle /\ table6 = Idle

\* one iteration of the matching loop whose branch is decided by the guard
SalesAdvance(guard) ==
  /\ pc = "s_match"
  /\ rec.cursor <= Len(rec.salesMap)
  /\ guard
  /\ rec' = SalesIteration(salesData, gstr1Data,
                           OptionOr(options.toleranceAmount, 1000), rec, rec.cursor)
  /\ UNCHANGED <<pc, salesData, gstr1Data, options, purchaseVars, wfVars>>

MatchExact == SalesAdvance(HasExact(rec, rec.cursor))

MatchFuzzy ==
  SalesAdvance(/\ ~HasExact(rec, rec.cursor)
               /\ FuzzyOf(salesData, gstr1Data, rec, rec.cursor).invoice # 0)

SalesNotFound ==
  SalesAdvance(/\ ~HasExact(rec, rec.cursor)
               /\ FuzzyOf(salesData, gstr1Data, rec, rec.cursor).invoice = 0)

SweepGstr1 ==
  /\ pc = "s_match"
  /\ rec.cursor > Len(rec.salesMap)
  /\ rec' = SalesSweep(rec)
  /\ pc' = "s_fold"
  /\ UNCHANGED <<salesData, gstr1Data, options, purchaseVars, wfVars>>

ReturnSalesResult ==
  /\ pc = "s_fold"
  /\ rec' = SalesFinish(salesData, rec)
  /\ pc' = "s_returned"
  /\ UNCHANGED <<salesData, gstr1Data, options, purchaseVars, wfVars>>

SalesNext ==
  \/ MatchExact
  \/ MatchFuzzy
  \/ SalesNotFound
  \/ SweepGstr1
  \/ ReturnSalesResult

SpecSales == SalesInit /\ [][SalesNext]_vars

(***************************************************************************)
(* Properties of reconcileData                                             *)
(***************************************************************************)
SalesReturned == pc = "s_returned"

SalesPairs == rec.result.matched \o rec.result.mismatched

\* C1: every record of salesData and of gstr1Data is in exactly one outcome
\* list, and |salesData| + |gstr1Data| = 2 * matched + 2 * mismatched +
\* missingSalesInGSTR1 + missingGSTR1InSales.
SalesCompleteness ==
  SalesReturned =>
    LET r == rec.result
    IN /\ Len(salesData) + Len(gstr1Data) =
            2 * Len(r.matched) + 2 * Len(r.mismatched)
              + Len(r.missingSalesInGSTR1) + Len(r.missingGSTR1InSales)
       /\ \A i \in 1..Len(salesData) :
            Count(SalesPairs, LAMBDA e : e.salesInvoice = i)
              + Count(r.missingSalesInGSTR1, LAMBDA m : m = i) = 1
       /\ \A j \in 1..Len(gstr1Data) :
            Count(SalesPairs, LAMBDA e : e.gstr1Invoice = j)
              + Count(r.missingGSTR1InSales, LAMBDA m : m = j) = 1

\* C2: no GSTR-1 record is the gstr1Invoice of more than one pair and no
\* sales record is the salesInvoice of more than one pair.
SalesSingleConsumption ==
  SalesReturned =>
    /\ \A j \in 1..Len(gstr1Data) :
         Count(SalesPairs, LAMBDA e : e.gstr1Invoice = j) <= 1
    /\ \A i \in 1..Len(salesData) :
         Count(SalesPairs, LAMBDA e : e.salesInvoice = i) <= 1

\* C9: a run with a toleranceAmount at least as large as the one of this run
\* reports no more mismatched and no fewer matched pairs.
MonotonicTolerance ==
  SalesReturned =>
    \A t \in Tolerances :
      t >= options.toleranceAmount[1] =>
        LET larger == reconcileData(salesData, gstr1Data, [toleranceAmount |-> <<t>>])
        IN /\ larger.summary.mismatched <= rec.result.summary.mismatched
           /\ larger.summary.matched >= rec.result.summary.matched

(***************************************************************************)
(* reconcileData on the identifiers of the documented scenarios            *)
(***************************************************************************)
Inv001Hyphen == <<"I", "N", "V", "-", "0", "0", "1">>
Inv001Lower  == <<"i", "n", "v", "0", "0", "1">>
Inv2 == <<"I", "N", "V", "-", "2">>
Inv9 == <<"I", "N", "V", "-", "9">>
Gstin1 == <<"G", "S", "T", "I", "N", "1">>

\* left records of the scenarios: total 1000 and total 5000
ScenarioSalesPool ==
  { SInv(Inv001Hyphen, Gstin1, <<>>, Jan5, 1000000, 0, 0, 0, 0),
    SInv(Inv2, <<"G", "1">>, <<>>, Jan5, 5000000, 0, 0, 0, 0) }

\* right records of the scenarios
ScenarioGstr1Pool ==
  { SInv(Inv001Lower, Gstin1, <<>>, Jan5, 1000000, 0, 0, 0, 0),
    SInv(Inv9, <<"G", "1">>, <<>>, Jan5, 5000000, 0, 0, 0, 0),
    SInv(Inv2, <<"G", "1">>, <<>>, Jan5, 5000000, 0, 0, 0, 0) }

ScenarioInit ==
  /\ salesData \in SeqsUpTo(ScenarioSalesPool, MaxSales)
  /\ gstr1Data \in SeqsUpTo(ScenarioGstr1Pool, MaxGstr1)
  /\ options \in [toleranceAmount : {<<>>} \cup {<<t>> : t \in Tolerances}]
  /\ rec = SalesStart(salesData, gstr1Data)
  /\ pc = "s_match"
  /\ purchaseData = Idle /\ gstr2Data = Idle /\ pur = Idle
  /\ liability = Idle /\ itc = Idle /\ wf = Idle /\ table6 = Idle

SpecSalesScenarios == ScenarioInit /\ [][SalesNext]_vars

\* the identifier without hyphens and in upper case
CollapseCaseAndHyphen(invoiceNo) == RemoveChars(ToUpperCase(invoiceNo), {"-"})

SameButIdentifier(a, b) ==
  /\ a.customerGSTIN = b.customerGSTIN
  /\ a.date = b.date
  /\ \A k \in 1..Len(MoneyFields) : a[MoneyFields[k]] = b[MoneyFields[k]]

\* C11: a sales record and a GSTR-1 record whose identifiers differ only in
\* letter case and hyphens, with the same counterparty and amounts and no
\* other record of either side under that identifier, are paired by exact
\* key match with zero discrepancies.
CaseAndHyphenCollapse ==
  SalesReturned =>
    \A i \in 1..Len(salesData), j \in 1..Len(gstr1Data) :
      LET Same(no) == CollapseCaseAndHyphen(no)
                        = CollapseCaseAndHyphen(salesData[i].invoiceNo)
      IN ( /\ salesData[i].invoiceNo # <<>>
           /\ Same(gstr1Data[j].invoiceNo)
           /\ SameButIdentifier(salesData[i], gstr1Data[j])
           /\ \A m \in 1..Len(salesData) : Same(salesData[m].invoiceNo) => m = i
           /\ \A m \in 1..Len(gstr1Data) : Same(gstr1Data[m].invoiceNo) => m = j )
         => \E k \in 1..Len(rec.result.matched) :
              /\ rec.result.matched[k].salesInvoice = i
              /\ rec.result.matched[k].gstr1Invoice = j
              /\ rec.result.matched[k].matchType = "exact"
              /\ rec.result.matched[k].discrepancies = <<>>

\* C12: every pair formed by the fuzzy fallback has confidence 0.7 or 0.9 and
\* an identifier-mismatch discrepancy in its discrepancies list.
FuzzyPairAnnotated ==
  SalesReturned =>
    \A k \in 1..Len(SalesPairs) :
      SalesPairs[k].matchType = "fuzzy" =>
        /\ SalesPairs[k].matchConfidence \in {7, 9}
        /\ \E d \in 1..Len(SalesPairs[k].discrepancies) :
             SalesPairs[k].discrepancies[d].field = "invoiceNo"

(***************************************************************************)
(* computeTaxPayment on the amounts of the documented scenario             *)
(***************************************************************************)
\* rupee amounts 0, 50, 60 and 100, in thousandths
ScenarioAmounts == {0, 50000, 60000, 100000}

ScenarioLiability == [igst |-> 0, cgst |-> 100000, sgst |-> 100000, cess |-> 0]
ScenarioCredit    == [igst |-> 50000, cgst |-> 60000, sgst |-> 0, cess |-> 0]

WfScenarioInit ==
  /\ liability \in [Heads -> ScenarioAmounts]
  /\ itc \in [Heads -> ScenarioAmounts]
  /\ liability.cess = 0 /\ itc.cess = 0
  /\ wf = WfStart(liability, itc)
  /\ table6 = Idle
  /\ pc = "step1"
  /\ salesData = Idle /\ gstr1Data = Idle /\ options = Idle /\ rec = Idle
  /\ purchaseData = Idle /\ gstr2Data = Idle /\ pur = Idle

SpecWaterfallScenario == WfScenarioInit /\ [][WfNext]_vars

\* C13: with liability CGST 100, SGST 100, IGST 0 and credit CGST 60, SGST 0,
\* IGST 50 (cess 0) the cash payable is CGST 0, SGST 100, IGST 0, the 50 of
\* IGST credit is applied to CGST, and 10 of CGST credit remains as balance.
WaterfallScenario ==
  (Returned /\ liability = ScenarioLiability /\ itc = ScenarioCredit) =>
    /\ table6.cashPayable.cgst = 0
    /\ table6.cashPayable.sgst = 100000
    /\ table6.cashPayable.igst = 0
    /\ table6.utilization.igstToCgst = 50000
    /\ table6.utilization.igstToSgst = 0
    /\ table6.itcBalance.cgst = 10000

WaterfallScenarioWitness ==
  /\ Returned /\ liability = ScenarioLiability /\ itc = ScenarioCredit
  /\ table6.utilization.cgstToCgst = 50000

(***************************************************************************)
(* The credit-exposure summary of reconcilePurchaseWith2A2B                *)
(***************************************************************************)
TaxHeads == {"cgst", "sgst", "igst"}

\* the sum of one head over the records of a collection
RECURSIVE HeadSum(_, _)
HeadSum(data, h) ==
  IF data = <<>> THEN 0
  ELSE ParseFloatOr0(Head(data)[h]) + HeadSum(Tail(data), h)

\* C14: per head, claimedITC is the sum over the purchase records,
\* availableITC the sum over the GSTR-2A/2B records, excessClaimed is
\* max(0, claimed - available), unclaimed is max(0, available - claimed); at
\* most one of the two is non-zero and claimed + unclaimed = available +
\* excessClaimed.
CreditExposure ==
  PurchaseReturned =>
    LET s == pur.result.itcSummary
    IN \A h \in TaxHeads :
         /\ s.claimedITC[h] = HeadSum(purchaseData, h)
         /\ s.availableITC[h] = HeadSum(gstr2Data, h)
         /\ s.excessClaimed[h] = Max(0, s.claimedITC[h] - s.availableITC[h])
         /\ s.unclaimed[h] = Max(0, s.availableITC[h] - s.claimedITC[h])
         /\ s.excessClaimed[h] = 0 \/ s.unclaimed[h] = 0
         /\ s.claimedITC[h] + s.unclaimed[h] = s.availableITC[h] + s.excessClaimed[h]

\* one head claimed in excess and another left unclaimed in the same run
CreditExposureWitness ==
  /\ PurchaseReturned
  /\ pur.result.itcSummary.excessClaimed.cgst > 0
  /\ pur.result.itcSummary.unclaimed.igst > 0
  /\ Len(purchaseData) = 2

(***************************************************************************)
(* Identifier-less records, ordering and duplicates in reconcileData       *)
(***************************************************************************)
InSeq(x, seq) == \E k \in 1..Len(seq) : seq[k] = x

\* C15: a sales record without an identifier is in missingSalesInGSTR1 and a
\* GSTR-1 record without an identifier is in missingGSTR1InSales.
EmptyIdentifierMissing ==
  SalesReturned =>
    /\ \A i \in 1..Len(salesData) :
         salesData[i].invoiceNo = <<>> => InSeq(i, rec.result.missingSalesInGSTR1)
    /\ \A j \in 1..Len(gstr1Data) :
         gstr1Data[j].invoiceNo = <<>> => InSeq(j, rec.result.missingGSTR1InSales)

(***************************************************************************)
(* The aggregation of reconcileData as a fold over match outcomes          *)
(***************************************************************************)
\* the accumulators before any outcome is folded (lines 862-879)
AggregateStart ==
  [matched |-> 0, mismatched |-> 0, missingSalesInGSTR1 |-> 0,
   missingGSTR1InSales |-> 0, totalDiscrepancyAmount |-> 0,
   monthly |-> <<>>, customer |-> <<>>]

\* what one outcome adds to the accumulators: the summary counter of its list
\* (lines 911-916, 927, 946-951, 986), the month's total and count (lines
\* 956-962 and 992-1020), the customer's total, count and discrepancy amount
\* (lines 965-973, 997-1012)
AggregateOutcome(acc, o) ==
  IF o.kind = "missingGSTR1" THEN [acc EXCEPT !.missingGSTR1InSales = @ + 1]
  ELSE
    LET month == extractMonth(o.invoice.date)
        custKey == CustKey(o.invoice)
        oldMonth == IF month \in DOMAIN acc.monthly THEN acc.monthly[month]
                    ELSE [matched |-> 0, mismatched |-> 0, missing |-> 0, total |-> 0]
        oldCust == IF custKey \in DOMAIN acc.customer THEN acc.customer[custKey]
                   ELSE [total |-> 0, matched |-> 0, mismatched |-> 0,
                         discrepancyAmount |-> 0]
        amount == IF o.kind = "mismatched" THEN Abs(o.totalDifference) ELSE 0
        counted == [acc EXCEPT
                      !.matched = IF o.kind = "matched" THEN @ + 1 ELSE @,
                      !.mismatched = IF o.kind = "mismatched" THEN @ + 1 ELSE @,
                      !.missingSalesInGSTR1 = IF o.kind = "missing" THEN @ + 1 ELSE @,
                      !.totalDiscrepancyAmount = @ + amount]
    IN [counted EXCEPT
          !.monthly =
             IF month = <<>> THEN @
             ELSE Put(@, month, [oldMonth EXCEPT ![o.kind] = @ + 1, !.total = @ + 1]),
          !.customer =
             Put(@, custKey,
                 [oldCust EXCEPT
                    !.total = @ + 1,
                    !.matched = IF o.kind = "matched" THEN @ + 1 ELSE @,
                    !.mismatched = IF o.kind = "mismatched" THEN @ + 1 ELSE @,
                    !.discrepancyAmount = @ + amount])]

\* the outcomes folded in the order of the sequence; line 1026 rounds the sum
RECURSIVE AggregateFrom(_, _)
AggregateFrom(acc, outcomes) ==
  IF outcomes = <<>> THEN acc
  ELSE AggregateFrom(AggregateOutcome(acc, Head(outcomes)), Tail(outcomes))

Aggregate(outcomes) ==
  [AggregateFrom(AggregateStart, outcomes)
     EXCEPT !.totalDiscrepancyAmount = Round2(@)]

\* the outcomes a finished run reports, list after list
ReportedOutcomes ==
  LET res == rec.result
      OfPair(kind, list) ==
        [k \in 1..Len(list) |->
           [kind |-> kind, invoice |-> salesData[list[k].salesInvoice],
            totalDifference |-> list[k].totalDifference]]
  IN OfPair("matched", res.matched) \o OfPair("mismatched", res.mismatched)
     \o [k \in 1..Len(res.missingSalesInGSTR1) |->
           [kind |-> "missing", invoice |-> salesData[res.missingSalesInGSTR1[k]],
            totalDifference |-> 0]]
     \o [k \in 1..Len(res.missingGSTR1InSales) |->
           [kind |-> "missingGSTR1", invoice |-> gstr1Data[res.missingGSTR1InSales[k]],
            totalDifference |-> 0]]

\* the counters and totals a finished run reports
ReportedAggregate ==
  LET res == rec.result
  IN [matched |-> res.summary.matched, mismatched |-> res.summary.mismatched,
      missingSalesInGSTR1 |-> res.summary.missingSalesInGSTR1,
      missingGSTR1InSales |-> res.summary.missingGSTR1InSales,
      totalDiscrepancyAmount |-> res.summary.totalDiscrepancyAmount,
      monthly |-> res.monthlyBreakdown,
      customer |-> [c \in DOMAIN res.customerBreakdown |->
                      [total |-> res.customerBreakdown[c].total,
                       matched |-> res.customerBreakdown[c].matched,
                       mismatched |-> res.customerBreakdown[c].mismatched,
                       discrepancyAmount |-> res.customerBreakdown[c].discrepancyAmount]]]

\* C16: folding the outcomes of a run in any permutation gives the summary
\* counters, the cumulative absolute discrepancy amount, the per-month counts
\* and the per-counterparty totals that reconcileData reports.
AggregationOrderIndependent ==
  SalesReturned =>
    \A p \in Permutations(1..Len(ReportedOutcomes)) :
      Aggregate([k \in 1..Len(ReportedOutcomes) |-> ReportedOutcomes[p[k]]])
        = ReportedAggregate

\* three outcomes of three kinds, two of them of one counterparty
AggregationWitness ==
  /\ SalesReturned
  /\ rec.result.summary.mismatched = 1
  /\ rec.result.summary.missingSalesInGSTR1 = 1
  /\ rec.result.summary.missingGSTR1InSales = 1
  /\ rec.result.summary.totalDiscrepancyAmount > 0
  /\ \E c \in DOMAIN rec.result.customerBreakdown :
       rec.result.customerBreakdown[c].total = 2

(***************************************************************************)
(* reconcileData on a longer GSTR-1 collection, where records of one key   *)
(* can stand on both sides of a record of another key                      *)
(***************************************************************************)
InterleavedInit ==
  /\ salesData \in SeqsUpTo(SalesPool, 1)
  /\ gstr1Data \in SeqsUpTo(Gstr1Pool, MaxGstr1 + 1)
  /\ options \in [toleranceAmount : {<<t>> : t \in Tolerances}]
  /\ rec = SalesStart(salesData, gstr1Data)
  /\ pc = "s_match"
  /\ purchaseData = Idle /\ gstr2Data = Idle /\ pur = Idle
  /\ liability = Idle /\ itc = Idle /\ wf = Idle /\ table6 = Idle

SpecSalesInterleaved == InterleavedInit /\ [][SalesNext]_vars

\* the input positions of a list stand in the order of the input
InInputOrder(positions) ==
  \A a, b \in 1..Len(positions) : a < b => positions[a] < positions[b]

\* C17: each of the four outcome lists holds its records in the relative
\* order of the input collection they come from: the pairs of matched and of
\* mismatched and the records of missingSalesInGSTR1 in the order of
\* salesData, the records of missingGSTR1InSales in the order of gstr1Data.
OutputOrderFollowsInput ==
  SalesReturned =>
    /\ InInputOrder([k \in 1..Len(rec.result.matched) |->
                       rec.result.matched[k].salesInvoice])
    /\ InInputOrder([k \in 1..Len(rec.result.mismatched) |->
                       rec.result.mismatched[k].salesInvoice])
    /\ InInputOrder(rec.result.missingSalesInGSTR1)
    /\ InInputOrder(rec.result.missingGSTR1InSales)

\* the input positions of the records of one side under one normalized key
KeyGroup(data, key) ==
  {i \in 1..Len(data) :
     data[i].invoiceNo # <<>> /\ normalizeInvoiceNo(data[i].invoiceNo) = key}

\* the duplicates entries of one side for one normalized key
DuplicateEntries(type, key) ==
  {k \in 1..Len(rec.result.duplicates) :
     /\ rec.result.duplicates[k].type = type
     /\ normalizeInvoiceNo(rec.result.duplicates[k].invoiceNo) = key}

DuplicatesTracked(type, data) ==
  \A i \in 1..Len(data) :
    LET key == normalizeInvoiceNo(data[i].invoiceNo)
        group == KeyGroup(data, key)
    IN Cardinality(group) >= 2 =>
         /\ Cardinality(DuplicateEntries(type, key)) = 1
         /\ \A k \in DuplicateEntries(type, key) :
              /\ rec.result.duplicates[k].count = Cardinality(group)
              /\ {rec.result.duplicates[k].invoices[m] :
                    m \in 1..Len(rec.result.duplicates[k].invoices)} = group

\* C18: for every normalized key that two or more records of one side share,
\* the duplicates list has exactly one entry for that side and key, and its
\* count and invoices cover the whole group, whether or not the key is
\* matched on the other side.
DuplicateGroupsTracked ==
  SalesReturned =>
    /\ DuplicatesTracked("sales_duplicate", salesData)
    /\ DuplicatesTracked("gstr1_duplicate", gstr1Data)

(***************************************************************************)
(* The fuzzy fallback of reconcileData                                     *)
(***************************************************************************)
\* the tolerance the caller configured, 1 when none is given
ConfiguredTolerance == OptionOr(options.toleranceAmount, 1000)

TotalGap(salesInv, gstr1Inv) ==
  Abs(ParseFloatOr0(salesInv.totalAmount) - ParseFloatOr0(gstr1Inv.totalAmount))

\* C19: a pair formed at confidence 0.7 has totals that differ by less than
\* the configured tolerance.
FuzzyAmountTierUsesTolerance ==
  SalesReturned =>
    \A k \in 1..Len(SalesPairs) :
      (SalesPairs[k].matchType = "fuzzy" /\ SalesPairs[k].matchConfidence = 7) =>
        TotalGap(salesData[SalesPairs[k].salesInvoice],
                 gstr1Data[SalesPairs[k].gstr1Invoice]) < ConfiguredTolerance

\* the GSTR-1 records with an identifier that are in no pair
Unpaired ==
  {j \in 1..Len(gstr1Data) :
     /\ gstr1Data[j].invoiceNo # <<>>
     /\ \A k \in 1..Len(SalesPairs) : SalesPairs[k].gstr1Invoice # j}

\* the score of a GSTR-1 record as candidate for a sales record
Score(i, j) ==
  FuzzyConfidence(salesData[i], gstr1Data[j],
                  normalizeInvoiceNo(gstr1Data[j].invoiceNo))

\* C20: the fuzzy fallback considers every unconsumed GSTR-1 record, the
\* non-first records of a bucket included: a sales record is reported missing
\* only when no unconsumed record scores 0.7 or more, and a fuzzy pair holds
\* the highest-scoring candidate, the earliest in input order among equals.
FuzzyConsidersEveryRecord ==
  SalesReturned =>
    /\ \A m \in 1..Len(rec.result.missingSalesInGSTR1) :
         \A j \in Unpaired : Score(rec.result.missingSalesInGSTR1[m], j) < 7
    /\ \A k \in 1..Len(SalesPairs) :
         SalesPairs[k].matchType = "fuzzy" =>
           \A j \in Unpaired :
             \/ Score(SalesPairs[k].salesInvoice, j) < SalesPairs[k].matchConfidence
             \/ /\ Score(SalesPairs[k].salesInvoice, j) = SalesPairs[k].matchConfidence
                /\ j > SalesPairs[k].gstr1Invoice

(***************************************************************************)
(* reconcileData on records whose monetary fields differ in several places *)
(* or are absent or not numeric                                            *)
(***************************************************************************)
\* a field holding text that parseFloat cannot read
NotNumeric == <<0, 0>>

FieldsSalesPool ==
  { SInv(<<"K", "1">>, <<"G", "1">>, <<>>, Jan5, 1000000, 90000, 90000, 0, 0),
    [SInv(<<"K", "2">>, <<"G", "1">>, <<>>, Jan5, 100000, 9000, 9000, 0, 0)
       EXCEPT !.totalAmount = NotNumeric],
    SInv(<<"K", "4">>, <<"G", "1">>, <<>>, Jan5, 100000, 0, 0, 18000, 600) }

FieldsGstr1Pool ==
  { SInv(<<"K", "1">>, <<"G", "1">>, <<>>, Jan5, 850000, 76500, 76500, 0, 0),
    [SInv(<<"K", "3">>, <<"G", "1">>, <<>>, Jan5, 100000, 9000, 9000, 0, 0)
       EXCEPT !.totalAmount = NotNumeric],
    [SInv(<<"K", "1">>, <<"G", "1">>, <<>>, Jan5, 1000000, 90000, 90000, 0, 0)
       EXCEPT !.cgst = <<>>],
    SInv(<<"J", "1">>, <<"G", "1">>, <<>>, Jan5, 100000, 0, 0, 18000, 0) }

FieldsInit ==
  /\ salesData \in SeqsUpTo(FieldsSalesPool, MaxSales)
  /\ gstr1Data \in SeqsUpTo(FieldsGstr1Pool, MaxGstr1)
  /\ options \in [toleranceAmount : {<<t>> : t \in Tolerances}]
  /\ rec = SalesStart(salesData, gstr1Data)
  /\ pc = "s_match"
  /\ purchaseData = Idle /\ gstr2Data = Idle /\ pur = Idle
  /\ liability = Idle /\ itc = Idle /\ wf = Idle /\ table6 = Idle

SpecSalesFields == FieldsInit /\ [][SalesNext]_vars

\* left value minus right value of one monetary field of a pair
FieldGap(pair, field) ==
  ParseFloatOr0(salesData[pair.salesInvoice][field])
    - ParseFloatOr0(gstr1Data[pair.gstr1Invoice][field])

\* the discrepancies of a pair for one field
FieldDiscrepancies(pair, field) ==
  {d \in 1..Len(pair.discrepancies) : pair.discrepancies[d].field = field}

\* C21: for every pair and every one of the five monetary fields, the pair
\* has exactly one discrepancy for the field when |left - right| exceeds the
\* tolerance and none otherwise, with severity high above 100, medium above
\* 10, low otherwise.
FieldLevelBreakdown ==
  SalesReturned =>
    \A k \in 1..Len(SalesPairs) :
      \A f \in 1..Len(MoneyFields) :
        LET gap == Abs(FieldGap(SalesPairs[k], MoneyFields[f]))
            found == FieldDiscrepancies(SalesPairs[k], MoneyFields[f])
        IN IF gap > ConfiguredTolerance
           THEN /\ Cardinality(found) = 1
                /\ \A d \in found :
                     SalesPairs[k].discrepancies[d].severity =
                       IF gap > 100000 THEN "high"
                       ELSE IF gap > 10000 THEN "medium" ELSE "low"
           ELSE found = {}

\* one pair with discrepancies of severity high and medium in several
\* fields, another with a single discrepancy of severity low
FieldLevelBreakdownWitness ==
  /\ SalesReturned
  /\ \E k \in 1..Len(SalesPairs) :
       /\ Len(SalesPairs[k].discrepancies) >= 4
       /\ \E d \in 1..Len(SalesPairs[k].discrepancies) :
            SalesPairs[k].discrepancies[d].severity = "high"
       /\ \E d \in 1..Len(SalesPairs[k].discrepancies) :
            SalesPairs[k].discrepancies[d].severity = "medium"
  /\ \E k \in 1..Len(SalesPairs) :
       /\ Len(SalesPairs[k].discrepancies) = 1
       /\ SalesPairs[k].discrepancies[1].severity = "low"

(***************************************************************************)
(* Either reconciliation function, for properties that speak of both       *)
(***************************************************************************)
ReconcileInit == SalesInit \/ PurchaseInit

ReconcileNext == SalesNext \/ PurchaseNext

SpecReconcile == ReconcileInit /\ [][ReconcileNext]_vars

\* the elements of matched have no discrepancy, those of mismatched have one
\* or more, and the two summary counters are the lengths of the lists
Classified(res) ==
  /\ \A k \in 1..Len(res.matched) : res.matched[k].discrepancies = <<>>
  /\ \A k \in 1..Len(res.mismatched) : res.mismatched[k].discrepancies # <<>>
  /\ res.summary.matched = Len(res.matched)
  /\ res.summary.mismatched = Len(res.mismatched)

\* C22: in every result of reconcileData and of reconcilePurchaseWith2A2B,
\* every element of matched has an empty discrepancies list, every element of
\* mismatched has at least one discrepancy, and summary.matched and
\* summary.mismatched are the lengths of those lists.
ClassificationMatchesDiscrepancies ==
  /\ SalesReturned => Classified(rec.result)
  /\ PurchaseReturned => Classified(pur.result)

\* a purchase result with an exact pair without discrepancy and a fuzzy pair
\* whose only discrepancy is the invoice number warning
ClassificationWitness ==
  /\ PurchaseReturned
  /\ Len(pur.result.matched) = 1
  /\ Len(pur.result.mismatched) = 1
  /\ pur.result.mismatched[1].discrepancies = <<InvoiceNoWarning>>

(***************************************************************************)
(* Fields that are absent or not numeric                                   *)
(***************************************************************************)
SameCounterparty(salesInv, gstr1Inv) ==
  /\ salesInv.customerGSTIN # <<>>
  /\ ToUpperCase(salesInv.customerGSTIN) = ToUpperCase(gstr1Inv.customerGSTIN)

\* C23: a monetary field that is absent or not numeric counts as 0 in the
\* fuzzy amount scoring as it does in the field comparison: a sales record is
\* not reported missing while a GSTR-1 record of the same counterparty, whose
\* total like its own is not numeric, is left unpaired.
UnparseableTotalsScoreZero ==
  SalesReturned =>
    \A m \in 1..Len(rec.result.missingSalesInGSTR1) :
      \A j \in Unpaired :
        LET salesInv == salesData[rec.result.missingSalesInGSTR1[m]]
        IN ~ ( /\ SameCounterparty(salesInv, gstr1Data[j])
               /\ salesInv.totalAmount = NotNumeric
               /\ gstr1Data[j].totalAmount = NotNumeric )

(***************************************************************************)
(* The month breakdown of reconcileData                                    *)
(***************************************************************************)
\* the sales records the matching loop processes: the first of each key
Processed == {rec.salesMap[k].invoices[1] : k \in 1..Len(rec.salesMap)}

RECURSIVE SumOver(_, _)
SumOver(S, f) ==
  IF S = {} THEN 0
  ELSE LET x == CHOOSE y \in S : TRUE IN f[x] + SumOver(S \ {x}, f)

\* C24: for every month key the total is matched + mismatched + missing of
\* that month and counts the processed sales records dated in that month, so
\* that a processed record without a parseable date is in no month entry; the
\* summary counters and the counterparty totals count every processed record.
MonthBreakdownConsistent ==
  SalesReturned =>
    LET res == rec.result
        months == res.monthlyBreakdown
        customers == res.customerBreakdown
    IN /\ \A m \in DOMAIN months :
            /\ months[m].total
                 = months[m].matched + months[m].mismatched + months[m].missing
            /\ months[m].total
                 = Cardinality({i \in Processed : extractMonth(salesData[i].date) = m})
       /\ <<>> \notin DOMAIN months
       /\ \A i \in Processed :
            extractMonth(salesData[i].date) # <<>> =>
              extractMonth(salesData[i].date) \in DOMAIN months
       /\ res.summary.matched + res.summary.mismatched
            + res.summary.missingSalesInGSTR1 = Cardinality(Processed)
       /\ SumOver(DOMAIN customers, [c \in DOMAIN customers |-> customers[c].total])
            = Cardinality(Processed)

\* a dated and an undated sales record, both processed
MonthBreakdownWitness ==
  /\ SalesReturned
  /\ Cardinality(Processed) = 2
  /\ \E i \in Processed :
       salesData[i].date # <<>> /\ extractMonth(salesData[i].date) = <<>>
  /\ \E m \in DOMAIN rec.result.monthlyBreakdown :
       rec.result.monthlyBreakdown[m].total = 1

(***************************************************************************)
(* Exact and fuzzy matching in reconcilePurchaseWith2A2B                   *)
(***************************************************************************)
\* C25: a purchase record and a GSTR-2A/2B record with the same composite
\* key, which no other record of either side has, are paired with each
\* other, whatever purchase records precede them.
PurchaseExactPriority ==
  PurchaseReturned =>
    \A i \in 1..Len(purchaseData), j \in 1..Len(gstr2Data) :
      ( /\ PurchaseCompositeKey(purchaseData[i]) = Gstr2CompositeKey(gstr2Data[j])
        /\ \A m \in 1..Len(purchaseData) :
             PurchaseCompositeKey(purchaseData[m])
               = PurchaseCompositeKey(purchaseData[i]) => m = i
        /\ \A m \in 1..Len(gstr2Data) :
             Gstr2CompositeKey(gstr2Data[m]) = Gstr2CompositeKey(gstr2Data[j]) => m = j )
      => \E k \in 1..Len(PurchasePairs) :
           PurchasePairs[k].purchase = i /\ PurchasePairs[k].gstr2 = j

(***************************************************************************)
(* computeGSTR3B (gstr3b.js): the tables handed to computeTaxPayment       *)
(***************************************************************************)
\* an outward or inward record as computeOutwardSupplies and
\* computeEligibleITC read it; rate is the rate of every head that is taxed
G3Inv(taxable, cgst, sgst, igst, cess, rate) ==
  [taxableAmount |-> <<taxable>>, cgst |-> <<cgst>>, sgst |-> <<sgst>>,
   igst |-> <<igst>>, cess |-> <<cess>>,
   cgstRate |-> IF cgst # 0 THEN <<rate>> ELSE <<>>,
   sgstRate |-> IF sgst # 0 THEN <<rate>> ELSE <<>>,
   igstRate |-> IF igst # 0 THEN <<rate>> ELSE <<>>,
   reverseCharge |-> <<>>, exportType |-> <<>>, invoiceType |-> "",
   itcAvailability |-> "", source |-> "2B"]

\* lines 81-94: the category of an outward record
OutwardCategory(inv) ==
  LET gstRate == ParseFloatOr0(inv.cgstRate) + ParseFloatOr0(inv.sgstRate)
                   + ParseFloatOr0(inv.igstRate)
      tax == ParseFloatOr0(inv.cgst) + ParseFloatOr0(inv.sgst) + ParseFloatOr0(inv.igst)
  IN IF ToUpperCase(inv.reverseCharge) = <<"Y">> THEN "reverseCharge"
     ELSE IF gstRate = 0 /\ ParseFloatOr0(inv.taxableAmount) > 0 /\ tax = 0
     THEN IF inv.exportType # <<>> \/ inv.invoiceType \in {"EXPWP", "EXPWOP"}
          THEN "zeroRated" ELSE "nilRatedExempt"
     ELSE "taxable"

\* lines 178-186: the category of an inward record
InwardCategory(inv) ==
  IF ToUpperCase(inv.reverseCharge) = <<"Y">> THEN "reverseCharge"
  ELSE IF inv.source = "ISD" THEN "fromISD"
  ELSE "allOther"

\* the sum of one field over the records of a collection
RECURSIVE SumField(_, _)
SumField(data, field) ==
  IF data = <<>> THEN 0
  ELSE ParseFloatOr0(Head(data)[field]) + SumField(Tail(data), field)

\* lines 59-119: the five categories, rounded, and the total liability
computeOutwardSupplies(outwardData) ==
  LET Category(cat) ==
        [f \in Heads \cup {"taxableAmount"} |->
           Round2(SumField(SelectSeq(outwardData,
                                     LAMBDA inv : OutwardCategory(inv) = cat), f))]
      categories == [cat \in {"taxable", "zeroRated", "nilRatedExempt",
                              "reverseCharge", "nonGST"} |-> Category(cat)]
  IN [categories |-> categories,
      totalLiability |->
        [f \in Heads |->
           categories["taxable"][f] + categories["zeroRated"][f]
             + categories["reverseCharge"][f]]]

\* lines 154-225: the available categories, the reversals (never filled) and
\* the net credit
computeEligibleITC(inwardData) ==
  LET Available(inv) == inv.itcAvailability # "N"
      Category(cat) ==
        [f \in Heads |->
           SumField(SelectSeq(inwardData,
                      LAMBDA inv : Available(inv) /\ InwardCategory(inv) = cat), f)]
      totalAvailable ==
        [f \in Heads |->
           Category("reverseCharge")[f] + Category("fromISD")[f]
             + Category("allOther")[f]]
      totalReversed == [f \in Heads |-> 0]
  IN [reverseCharge |-> Category("reverseCharge"),
      fromISD |-> Category("fromISD"),
      allOther |-> Category("allOther"),
      totalAvailable |-> totalAvailable,
      totalReversed |-> totalReversed,
      netITC |-> [f \in Heads |-> Round2(totalAvailable[f] - totalReversed[f])]]

\* lines 19-20
OutwardData(data) == IF Len(data.gstr1Data) > 0 THEN data.gstr1Data ELSE data.salesData

InwardData(data) == IF Len(data.gstr2bData) > 0 THEN data.gstr2bData ELSE data.purchaseData

computeTaxPaymentFor_carriedForward(liab, credit, previousBalance) ==
  computeTaxPayment(liab, [h \in Heads |-> credit[h] + previousBalance[h]])

\* line 254: computeTaxPayment with its third parameter, which the body
\* (lines 255-375) never reads
computeTaxPaymentFor(liab, credit, previousBalance) ==
  computeTaxPayment(liab, credit)

\* lines 9-36: table6 of the result
computeGSTR3B(data) ==
  computeTaxPaymentFor(computeOutwardSupplies(OutwardData(data)).totalLiability,
                       computeEligibleITC(InwardData(data)).netITC,
                       data.previousBalance)

\* outward records: intra-state, inter-state with cess, reverse charge,
\* export without payment, nil rated
OutwardPool ==
  { G3Inv(100000, 9000, 9000, 0, 0, 9),
    G3Inv(100000, 0, 0, 18000, 1000, 18),
    [G3Inv(100000, 0, 0, 18000, 0, 18) EXCEPT !.reverseCharge = <<"y">>],
    [G3Inv(100000, 0, 0, 0, 0, 0) EXCEPT !.invoiceType = "EXPWOP"],
    G3Inv(100000, 0, 0, 0, 0, 0) }

\* inward records: intra-state, inter-state with cess, a credit note as
\* parseGSTR2A negates it (gstr2Reconciliation.js lines 90-97), a record
\* whose credit is not available, a record from an input service distributor
InwardPool ==
  { G3Inv(100000, 9000, 9000, 0, 0, 9),
    G3Inv(100000, 0, 0, 18000, 1000, 18),
    G3Inv(-200000, 0, 0, -36000, 0, 18),
    [G3Inv(100000, 0, 0, 18000, 0, 18) EXCEPT !.itcAvailability = "N"],
    [G3Inv(50000, 4500, 4500, 0, 0, 9) EXCEPT !.source = "ISD"] }

\* sales and purchase registers, used when the returns are empty
OutwardFallbackPool == {G3Inv(100000, 0, 0, 18000, 0, 18)}

InwardFallbackPool == {G3Inv(100000, 9000, 9000, 0, 0, 9)}

\* balances carried forward from an earlier period
Balances ==
  { [cgst |-> 0, sgst |-> 0, igst |-> 0, cess |-> 0],
    [cgst |-> 9000, sgst |-> 9000, igst |-> 18000, cess |-> 1000] }

\* the argument of computeGSTR3B
Gstr3bData ==
  [salesData |-> salesData, purchaseData |-> purchaseData,
   gstr1Data |-> gstr1Data, gstr2bData |-> gstr2Data,
   previousBalance |-> options.previousBalance]

Gstr3bInit ==
  /\ salesData \in SeqsUpTo(OutwardFallbackPool, 1)
  /\ gstr1Data \in SeqsUpTo(OutwardPool, MaxGstr1)
  /\ purchaseData \in SeqsUpTo(InwardFallbackPool, 1)
  /\ gstr2Data \in SeqsUpTo(InwardPool, MaxGstr2)
  /\ options \in [previousBalance : Balances]
  /\ pc = "tables"
  /\ liability = Idle /\ itc = Idle /\ wf = Idle /\ table6 = Idle
  /\ rec = Idle /\ pur = Idle

\* lines 19-36 and 255-282: tables 3.1 and 4, and the locals of
\* computeTaxPayment taken from them
ComputeTables ==
  /\ pc = "tables"
  /\ liability' = computeOutwardSupplies(OutwardData(Gstr3bData)).totalLiability
  /\ itc' = computeEligibleITC(InwardData(Gstr3bData)).netITC
  /\ wf' = WfStart(liability', itc')
  /\ pc' = "step1"
  /\ UNCHANGED <<table6, options, salesData, gstr1Data, rec, purchaseVars>>

Gstr3bNext == ComputeTables \/ WfNext

SpecGstr3b == Gstr3bInit /\ [][Gstr3bNext]_vars

TablesComputed == pc \notin {"tables"}

\* C26: every per-head liability and every per-head available credit that
\* computeGSTR3B hands to computeTaxPayment is >= 0.
LedgerEntriesNonNegative ==
  TablesComputed => \A h \in Heads : liability[h] >= 0 /\ itc[h] >= 0

(***************************************************************************)
(* Bounds of computeTaxPayment                                             *)
(***************************************************************************)
\* the locals of the waterfall are defined from the first step on
InWaterfall == pc \in {"step1", "step2", "step3", "step4", "step5", "step6",
                       "step7", "step8", "report", "returned"}

NonNegativeInputs == \A h \in Heads : liability[h] >= 0 /\ itc[h] >= 0

\* C27: for non-negative liabilities and credits, every remaining liability
\* and every remaining credit is >= 0 after each of the eight steps, and in
\* the result 0 <= cashPayable <= liability and 0 <= itcBalance <= credit
\* for every head and every utilization entry is >= 0.
WaterfallBounds ==
  (InWaterfall /\ NonNegativeInputs) =>
    /\ wf.payIGST >= 0 /\ wf.payCGST >= 0 /\ wf.paySGST >= 0 /\ wf.payCESS >= 0
    /\ wf.remainIGST >= 0 /\ wf.remainCGST >= 0
    /\ wf.remainSGST >= 0 /\ wf.remainCESS >= 0
    /\ Returned =>
         /\ \A h \in Heads :
              /\ 0 <= table6.cashPayable[h] /\ table6.cashPayable[h] <= liability[h]
              /\ 0 <= table6.itcBalance[h] /\ table6.itcBalance[h] <= itc[h]
         /\ \A u \in DOMAIN table6.utilization : table6.utilization[u] >= 0

\* a finished run in which credit of one head is used up and credit of
\* another is left over
WaterfallBoundsWitness ==
  /\ Returned /\ NonNegativeInputs
  /\ table6.cashPayable.sgst > 0
  /\ table6.itcBalance.cgst > 0
  /\ table6.utilization.igstToSgst > 0

\* C28: in every result for non-negative inputs, cash payable under IGST
\* means that no IGST, CGST or SGST credit is left; under CGST, no IGST or
\* CGST credit; under SGST, no IGST or SGST credit; under cess, no cess
\* credit.
NoIdleCredit ==
  (Returned /\ NonNegativeInputs) =>
    LET cash == table6.cashPayable
        left == table6.itcBalance
    IN /\ cash.igst > 0 => left.igst = 0 /\ left.cgst = 0 /\ left.sgst = 0
       /\ cash.cgst > 0 => left.igst = 0 /\ left.cgst = 0
       /\ cash.sgst > 0 => left.igst = 0 /\ left.sgst = 0
       /\ cash.cess > 0 => left.cess = 0

\* cash is payable under CGST while SGST credit, which may not be used
\* against CGST, is left over
NoIdleCreditWitness ==
  /\ Returned /\ NonNegativeInputs
  /\ table6.cashPayable.cgst > 0
  /\ table6.itcBalance.sgst > 0
  /\ table6.utilization.cgstToCgst > 0

(***************************************************************************)
(* The balance carried forward into computeGSTR3B                          *)
(***************************************************************************)
PaymentOf(t6) ==
  [cashPayable |-> t6.cashPayable, itcUtilized |-> t6.itcUtilized,
   itcBalance |-> t6.itcBalance, netPayable |-> t6.netPayable]

\* C29: the cashPayable, itcUtilized, itcBalance and netPayable of a run are
\* those of computeGSTR3B on the same collections with any other
\* previousBalance.
PreviousBalanceIgnored ==
  Returned =>
    \A b \in Balances :
      PaymentOf(computeGSTR3B([Gstr3bData EXCEPT !.previousBalance = b]))
        = PaymentOf(table6)

\* a balance of IGST credit is carried forward and IGST is paid in cash
PreviousBalanceWitness ==
  /\ Returned
  /\ options.previousBalance.igst > 0
  /\ table6.cashPayable.igst > 0
  /\ table6.itcAvailable.igst > 0

(***************************************************************************)
(* reconcilePurchaseWith2A2B on identifiers that contain the separator of  *)
(* the composite key                                                       *)
(***************************************************************************)
SeparatorPurchasePool ==
  { PInv(<<"X">>, <<"G", "_", "1">>, 100000, 0, 0, 18000),
    PInv(<<"A", "1">>, <<"G", "1">>, 100000, 0, 0, 18000),
    PInv(<<"B", "2">>, <<"G", "2">>, 100000, 9000, 9000, 0) }

SeparatorGstr2Pool ==
  { PInv(<<"1", "_", "X">>, <<"G">>, 100000, 0, 0, 18000),
    PInv(<<"A", "1">>, <<"g", "1">>, 100000, 0, 0, 18000),
    PInv(<<"C", "3">>, <<"G", "2">>, 100000, 9000, 9000, 0) }

SeparatorInit ==
  /\ purchaseData \in SeqsUpTo(SeparatorPurchasePool, MaxPurchases)
  /\ gstr2Data \in SeqsUpTo(SeparatorGstr2Pool, MaxGstr2)
  /\ options \in [tolerance : PurchaseTolerances]
  /\ pur = PurchaseStart(purchaseData, gstr2Data)
  /\ pc = "p_index"
  /\ salesData = Idle /\ gstr1Data = Idle /\ rec = Idle
  /\ liability = Idle /\ itc = Idle /\ wf = Idle /\ table6 = Idle

SpecPurchaseSeparator == SeparatorInit /\ [][PurchaseNext]_vars

\* C30: in every pair of matched and mismatched the supplier GSTIN of the
\* purchase record equals that of the GSTR-2A/2B record, letter case aside,
\* and no pair has a discrepancy of field 'gstin'.
PairsShareCounterparty ==
  PurchaseReturned =>
    \A k \in 1..Len(PurchasePairs) :
      /\ PurchaseGSTIN(purchaseData[PurchasePairs[k].purchase])
           = ToUpperCase(gstr2Data[PurchasePairs[k].gstr2].supplierGSTIN)
      /\ \A d \in 1..Len(PurchasePairs[k].discrepancies) :
           PurchasePairs[k].discrepancies[d].field # "gstin"

====
